---- MODULE Spec2Model ----
(***************************************************************************)
(* Model of deeppavlov_kg/core/ontology.py, class Neo4jOntologyConfig:     *)
(* the pickled entity-kind tree (ontology_kinds_hierarchy), the JSON data  *)
(* model of the relationship kinds (ontology_data_model) and the           *)
(* operations that read and rewrite them.  Every public method is one      *)
(* action: it loads the persisted state, works on the in-memory copy and   *)
(* saves (or does not save) exactly where the code does.                   *)
(* Class TerminusdbOntologyConfig of the same file is modelled next to it: *)
(* the schema graph the client holds (client_schema), the documents        *)
(* written through the knowledge graph (kg_documents), and the methods     *)
(* that build schema text, commit it, and cut statements out of it.        *)
(* Two processes that call into one pickle file without serialisation      *)
(* (writers, last_saver) are modelled with the load and the save of a call *)
(* as separate steps.                                                      *)
(***************************************************************************)
EXTENDS Integers, Sequences, FiniteSets, TLC

VARIABLES ontology_kinds_hierarchy, call, ontology_data_model, rel_call,
          client_schema, kg_documents, tdb_call, writers, last_saver

vars == <<ontology_kinds_hierarchy, call, ontology_data_model, rel_call,
          client_schema, kg_documents, tdb_call, writers, last_saver>>

----------------------------------------------------------------------------
(* Bounds of the model                                                     *)

\* longest kind_properties / kind_property_types / units list of a call
MaxProps == 1
\* longest property_kinds list handed to delete_property_kinds
MaxDel == 2
\* depth at which the interpreter gives up a recursion (RecursionError)
RecursionLimit == 4
\* longest list of property names / property values a statement about the
\* validity check ranges over
MaxVals == 2

----------------------------------------------------------------------------
(* Values                                                                  *)

Kinds == {"Kind", "A", "B"}
PropNames == {"_deleted", "p"}
PyTypes == {"str"}
Units == {"kg"}

\* Python's None where a string is expected
None == "None"
\* None passed for an Optional[List] argument
NoneArg == <<"None">>

SeqsUpTo(S, n) == UNION {[1..m -> S] : m \in 0..n}
Range(s) == {s[i] : i \in DOMAIN s}

PropLists == SeqsUpTo(PropNames, MaxProps)
TypeArgs == {NoneArg} \cup SeqsUpTo(PyTypes, MaxProps)
UnitArgs == {NoneArg} \cup SeqsUpTo(Units, MaxProps)
DelLists == SeqsUpTo(PropNames, MaxDel)

----------------------------------------------------------------------------
(* Python dicts as functions                                               *)

EmptyDict == [k \in {} |-> None]

\* d.update(e): the entries of e replace same-named entries of d
DictUpdate(d, e) ==
    [k \in (DOMAIN d) \cup (DOMAIN e) |-> IF k \in DOMAIN e THEN e[k] ELSE d[k]]

\* d.pop(k)
DictPop(d, k) == [x \in (DOMAIN d) \ {k} |-> d[x]]

----------------------------------------------------------------------------
(* treelib.Tree: nodes indexed by identifier, each with its predecessor    *)
(* and its data (Kind.properties)                                          *)

\* no pickle file on disk: _load_ontology_kinds_hierarchy returns None
NoTree == [is_none |-> TRUE, nodes |-> EmptyDict]
\* Tree()
NewTree == [is_none |-> FALSE, nodes |-> EmptyDict]

\* tree.get_node(kind) is not None
has_node(tree, kind) == (~tree.is_none) /\ kind \in DOMAIN tree.nodes

\* tree.create_node(tag=kind, identifier=kind, parent=parent, data=Kind(properties))
\* (the caller handles DuplicatedNodeIdError)
create_node(tree, kind, parent, properties) ==
    [is_none |-> FALSE,
     nodes |-> [k \in (DOMAIN tree.nodes) \cup {kind} |->
                  IF k = kind THEN [parent |-> parent, properties |-> properties]
                  ELSE tree.nodes[k]]]

RECURSIVE expand_tree(_, _)
\* tree.expand_tree(nid): nid and every node below it
expand_tree(tree, nid) ==
    LET children == {k \in DOMAIN tree.nodes : tree.nodes[k].parent = nid}
    IN {nid} \cup UNION {expand_tree(tree, c) : c \in children}

\* remove_node as it would be if it dropped nid alone
remove_node_alone(tree, nid) ==
    [is_none |-> FALSE,
     nodes |-> [k \in (DOMAIN tree.nodes) \ {nid} |-> tree.nodes[k]]]

\* tree.remove_node(nid): drops nid with all its successors
remove_node(tree, nid) ==
    LET removed == expand_tree(tree, nid)
    IN [is_none |-> FALSE,
        nodes |-> [k \in (DOMAIN tree.nodes) \ removed |-> tree.nodes[k]]]

----------------------------------------------------------------------------
(* Helpers of Neo4jOntologyConfig                                          *)

\* _type2str for one item: str(type), None for a type outside the table
type2str(t) ==
    CASE t = "str" -> "<class 'str'>"
      [] t = "int" -> "<class 'int'>"
      [] t = "float" -> "<class 'float'>"
      [] t = "bool" -> "<class 'bool'>"
      [] t = "date" -> "<class 'datetime.date'>"
      [] t = "time" -> "<class 'datetime.time'>"
      [] t = "datetime" -> "<class 'datetime.datetime'>"
      [] OTHER -> None

\* _type2str
_type2str(types_to_convert) ==
    [i \in DOMAIN types_to_convert |-> type2str(types_to_convert[i])]

\* values a call hands back
NoneResult == [type |-> "None", kind |-> None, properties |-> EmptyDict]
DictResult(d) == [type |-> "dict", kind |-> None, properties |-> d]

\* _node2dict: {"kind": node.tag, **node.data.properties}
_node2dict(tree, kind) ==
    [type |-> "node", kind |-> kind, properties |-> tree.nodes[kind].properties]

\* the properties of the synthetic root
RootProperties ==
    [k \in {"_deleted"} |-> [type |-> type2str("bool"), measurement_unit |-> ""]]

\* outcome of a method: what is on disk afterwards, how the call ended
\* ("return" or the exception that left it), and the returned value
Returns(file, result) == [file |-> file, outcome |-> "return", result |-> result]
Raises(file, error) == [file |-> file, outcome |-> error, result |-> NoneResult]

----------------------------------------------------------------------------
(* create_entity_kind                                                      *)

\* lines 296-304: the dict built from the three argument lists; for a name
\* given twice the last occurrence stays
own_properties_dict(kind_properties, kind_property_types, kind_property_measurement_units) ==
    [n \in Range(kind_properties) |->
        LET idx == CHOOSE i \in DOMAIN kind_properties :
                      /\ kind_properties[i] = n
                      /\ \A j \in DOMAIN kind_properties : kind_properties[j] = n => j <= i
        IN [type |-> _type2str(kind_property_types)[idx],
            measurement_unit |-> kind_property_measurement_units[idx]]]

\* line 305 as it would be without the update from the parent
merge_parent_properties_skipped(kind_properties_dict, parent_properties) ==
    kind_properties_dict

\* line 305: kind_properties_dict.update(parent_node.data.properties)
merge_parent_properties(kind_properties_dict, parent_properties) ==
    DictUpdate(kind_properties_dict, parent_properties)

\* lines 261-262: kind_properties defaults to []
default_properties(properties_arg) ==
    IF properties_arg = NoneArg THEN <<>> ELSE properties_arg

\* lines 263-264: kind_property_types defaults to [str] * len(kind_properties)
default_types(kind_properties, types_arg) ==
    IF types_arg = NoneArg THEN [i \in 1..Len(kind_properties) |-> "str"] ELSE types_arg

\* lines 265-266: the units default to [""] * len(kind_properties)
default_units(kind_properties, units_arg) ==
    IF units_arg = NoneArg THEN [i \in 1..Len(kind_properties) |-> ""] ELSE units_arg

\* lines 276-287 as they would be with a root created without data
load_or_new_tree_bare_root(file) ==
    IF file.is_none THEN create_node(NewTree, "Kind", None, EmptyDict) ELSE file

\* lines 276-287: the loaded tree, or a fresh one holding only the root
load_or_new_tree(file) ==
    IF file.is_none THEN create_node(NewTree, "Kind", None, RootProperties) ELSE file

RECURSIVE create_entity_kind(_, _, _, _, _, _, _)
\* file is the pickle on disk when the call starts, depth the number of
\* create_entity_kind frames on the stack
create_entity_kind(file, kind, parent, properties_arg, types_arg, units_arg, depth) ==
    IF depth > RecursionLimit THEN Raises(file, "RecursionError")
    ELSE
    LET kind_properties == default_properties(properties_arg)
        kind_property_types == default_types(kind_properties, types_arg)
        kind_property_measurement_units == default_units(kind_properties, units_arg)
        tree == load_or_new_tree(file)
    IN
    IF Len(kind_property_types) # Len(kind_property_measurement_units)
    THEN Raises(file, "AssertionError")
    ELSE
    IF ~has_node(tree, parent)
    THEN \* parent_node = self.create_entity_kind(parent, "Kind"): a dict
         LET inner == create_entity_kind(file, parent, "Kind", NoneArg, NoneArg, NoneArg, depth + 1)
         IN IF inner.outcome # "return" THEN Raises(inner.file, inner.outcome)
            ELSE IF Len(kind_property_types) < Len(kind_properties)
                 THEN Raises(inner.file, "IndexError")
                 ELSE \* parent_node.data on a dict
                      Raises(inner.file, "AttributeError")
    ELSE
    IF Len(kind_property_types) < Len(kind_properties)
    THEN Raises(file, "IndexError")
    ELSE
    LET kind_properties_dict ==
            merge_parent_properties(
                own_properties_dict(kind_properties, kind_property_types,
                                    kind_property_measurement_units),
                tree.nodes[parent].properties)
    IN
    IF has_node(tree, kind)
    THEN \* DuplicatedNodeIdError: logged, nothing saved
         Returns(file, _node2dict(tree, kind))
    ELSE LET saved == create_node(tree, kind, parent, kind_properties_dict)
         IN Returns(saved, _node2dict(saved, kind))

----------------------------------------------------------------------------
(* delete_entity_kind, get_entity_kind                                     *)

\* _get_node_from_tree(tree, kind) is not None
_get_node_from_tree(tree, kind) == has_node(tree, kind)

\* delete_entity_kind as it would be without the guard of line 327
delete_entity_kind_unguarded(file, entity_kind) ==
    IF file.is_none THEN Raises(file, "AttributeError")
    ELSE IF ~has_node(file, entity_kind) THEN Raises(file, "NodeIDAbsentError")
    ELSE Returns(remove_node(file, entity_kind), NoneResult)

delete_entity_kind(file, entity_kind) ==
    IF file.is_none \/ ~_get_node_from_tree(file, entity_kind)
    THEN Returns(file, NoneResult)
    ELSE Returns(remove_node(file, entity_kind), NoneResult)

\* get_entity_kind as it would be if it looked the kind up in the tree
\* directly, without _get_node_from_tree's test for None
get_entity_kind_unguarded(file, entity_kind) ==
    IF file.is_none THEN Raises(file, "AttributeError")
    ELSE IF entity_kind \in DOMAIN file.nodes
         THEN Returns(file, DictResult(file.nodes[entity_kind].properties))
         ELSE Returns(file, DictResult(EmptyDict))

get_entity_kind(file, entity_kind) ==
    IF _get_node_from_tree(file, entity_kind)
    THEN Returns(file, DictResult(file.nodes[entity_kind].properties))
    ELSE Returns(file, DictResult(EmptyDict))

----------------------------------------------------------------------------
(* property kinds of an entity kind                                        *)

\* lines 376-377 read the local new_property_types before any assignment
\* (the parameters are named property_kinds, property_types): every call
\* leaves with UnboundLocalError before the tree is loaded
create_property_kinds_of_entity_kind(file, kind, property_kinds, property_types) ==
    Raises(file, "UnboundLocalError")

\* the loop as it would be with pop(property_kind, None): a missing name
\* is passed over
pop_property_kinds_lenient(properties, property_kinds) ==
    [error |-> FALSE,
     properties |-> [x \in (DOMAIN properties) \ Range(property_kinds) |-> properties[x]]]

RECURSIVE pop_property_kinds(_, _)
\* the loop of delete_property_kinds over the in-memory node: the remaining
\* properties, or error when a name is missing
pop_property_kinds(properties, property_kinds) ==
    IF property_kinds = <<>> THEN [error |-> FALSE, properties |-> properties]
    ELSE IF Head(property_kinds) \in DOMAIN properties
         THEN pop_property_kinds(DictPop(properties, Head(property_kinds)), Tail(property_kinds))
         ELSE [error |-> TRUE, properties |-> properties]

\* delete_property_kinds as it would be without the save of line 429
delete_property_kinds_unsaved(file, entity_kind, property_kinds) ==
    IF _get_node_from_tree(file, entity_kind) /\ ~file.is_none
    THEN IF pop_property_kinds(file.nodes[entity_kind].properties, property_kinds).error
         THEN Raises(file, "ValueError")
         ELSE Returns(file, NoneResult)
    ELSE Raises(file, "ValueError")

\* delete_property_kinds as it would be if the names were popped from the
\* maps of the kinds below entity_kind as well
delete_property_kinds_retroactive(file, entity_kind, property_kinds) ==
    IF _get_node_from_tree(file, entity_kind) /\ ~file.is_none
    THEN IF pop_property_kinds(file.nodes[entity_kind].properties, property_kinds).error
         THEN Raises(file, "ValueError")
         ELSE Returns([is_none |-> FALSE,
                       nodes |-> [k \in DOMAIN file.nodes |->
                           IF k \in expand_tree(file, entity_kind)
                           THEN [parent |-> file.nodes[k].parent,
                                 properties |-> pop_property_kinds_lenient(
                                     file.nodes[k].properties, property_kinds).properties]
                           ELSE file.nodes[k]]],
                      NoneResult)
    ELSE Raises(file, "ValueError")

\* delete_property_kinds as it would be if the tree were saved before the
\* ValueError of line 426 is raised
delete_property_kinds_saving_popped(file, entity_kind, property_kinds) ==
    IF _get_node_from_tree(file, entity_kind) /\ ~file.is_none
    THEN LET popped == pop_property_kinds(file.nodes[entity_kind].properties, property_kinds)
         IN IF popped.error
            THEN Raises([file EXCEPT !.nodes[entity_kind].properties = popped.properties],
                        "ValueError")
            ELSE Returns([file EXCEPT !.nodes[entity_kind].properties = popped.properties],
                         NoneResult)
    ELSE Raises(file, "ValueError")

delete_property_kinds(file, entity_kind, property_kinds) ==
    IF _get_node_from_tree(file, entity_kind) /\ ~file.is_none
    THEN LET popped == pop_property_kinds(file.nodes[entity_kind].properties, property_kinds)
         IN IF popped.error THEN Raises(file, "ValueError")
            ELSE Returns([file EXCEPT !.nodes[entity_kind].properties = popped.properties],
                         NoneResult)
    ELSE Raises(file, "ValueError")

\* delete_property_kind: delete_property_kinds with the one-element list
delete_property_kind(file, entity_kind, property_kind) ==
    delete_property_kinds(file, entity_kind, <<property_kind>>)

----------------------------------------------------------------------------
(* _check_entity_kind_properties_validity                                  *)

\* the runtime types of the property values handed to the check
ValueTypes == {"str", "bool"}
ValueLists == SeqsUpTo(ValueTypes, MaxVals)
NameLists == SeqsUpTo(PropNames, MaxVals)

\* line 172: str(type(value)) of a value of the given runtime type
str_type(value) ==
    CASE value = "str" -> "<class 'str'>"
      [] value = "int" -> "<class 'int'>"
      [] value = "bool" -> "<class 'bool'>"

TrueResult == [type |-> "True", kind |-> None, properties |-> EmptyDict]

\* line 172 as it would be without str(): the type object compared with the
\* stored string differs always
type_differs_always(value, property_type) == TRUE

\* line 172: the test that rejects a value
type_differs(value, property_type) == str_type(value) # property_type

RECURSIVE check_properties(_, _, _, _)
\* lines 162-176: the loop from index idx on; the exception that leaves it,
\* or "True"
check_properties(kind_properties, list_of_property_kinds, list_of_property_values, idx) ==
    IF idx > Len(list_of_property_kinds) THEN "True"
    ELSE LET prop == list_of_property_kinds[idx]
         IN IF prop \notin DOMAIN kind_properties THEN "ValueError"
            ELSE IF idx > Len(list_of_property_values) THEN "IndexError"
            ELSE IF type_differs(list_of_property_values[idx], kind_properties[prop].type)
                 THEN "ValueError"
                 ELSE check_properties(kind_properties, list_of_property_kinds,
                                       list_of_property_values, idx + 1)

_check_entity_kind_properties_validity(file, list_of_property_kinds, list_of_property_values, entity_kind) ==
    LET kind_properties == get_entity_kind(file, entity_kind).result.properties
        ended == check_properties(kind_properties, list_of_property_kinds,
                                  list_of_property_values, 1)
    IN IF ended = "True" THEN Returns(file, TrueResult) ELSE Raises(file, ended)

----------------------------------------------------------------------------
(* The data model of the relationship kinds: a JSON object               *)
(*   relationship kind -> list of [kind_a, kind_b, properties]             *)

RelationshipKinds == {"R", "S"}
\* the entity kinds the relationship calls name
PairKinds == {"A", "B"}

\* no JSON file on disk: _load_ontology_data_model returns None
NoModel == [is_none |-> TRUE, rels |-> EmptyDict]
\* dict()
NewModel == [is_none |-> FALSE, rels |-> EmptyDict]

\* [entity_kind_a, entity_kind_b, rel_properties_dict]
Triple(kind_a, kind_b, properties) ==
    [kind_a |-> kind_a, kind_b |-> kind_b, properties |-> properties]

\* values a relationship call hands back: None or a list of triples
NoneValue == [is_none |-> TRUE, triples |-> <<>>]
ListValue(triples) == [is_none |-> FALSE, triples |-> triples]

RelReturns(model, result) == [model |-> model, outcome |-> "return", result |-> result]
RelRaises(model, error) == [model |-> model, outcome |-> error, result |-> NoneValue]

\* list.pop(idx), idx counted from 1
ListPop(list, idx) == [i \in 1..(Len(list) - 1) |-> IF i < idx THEN list[i] ELSE list[i + 1]]

\* lines 486-488 as they would be comparing the tuple with the stored JSON
\* lists [knd_a, knd_b]: never equal
pair_registered_never(triples, kind_a, kind_b) == FALSE

\* lines 486-488: (entity_kind_a, entity_kind_b) in [(knd_a, knd_b) ...]
pair_registered(triples, kind_a, kind_b) ==
    \E i \in DOMAIN triples : triples[i].kind_a = kind_a /\ triples[i].kind_b = kind_b

create_relationship_kind(model, entity_kind_a, relationship_kind, entity_kind_b) ==
    LET data_model == IF model.is_none THEN NewModel ELSE model
        rel_properties_dict == EmptyDict
        triple == Triple(entity_kind_a, entity_kind_b, rel_properties_dict)
    IN IF relationship_kind \in DOMAIN data_model.rels
       THEN IF ~pair_registered(data_model.rels[relationship_kind], entity_kind_a, entity_kind_b)
            THEN RelReturns([data_model EXCEPT !.rels[relationship_kind] = Append(@, triple)],
                            NoneValue)
            ELSE \* logged, return None before the save
                 RelReturns(model, NoneValue)
       ELSE RelReturns([data_model EXCEPT !.rels =
                           [k \in (DOMAIN data_model.rels) \cup {relationship_kind} |->
                               IF k = relationship_kind THEN <<triple>> ELSE data_model.rels[k]]],
                       NoneValue)

\* get_relationship_kind as it would be with data_model.get(name, [])
get_relationship_kind_or_empty(model, relationship_kind) ==
    IF ~model.is_none
    THEN IF relationship_kind \in DOMAIN model.rels
         THEN RelReturns(model, ListValue(model.rels[relationship_kind]))
         ELSE RelReturns(model, ListValue(<<>>))
    ELSE RelReturns(model, NoneValue)

get_relationship_kind(model, relationship_kind) ==
    IF ~model.is_none
    THEN IF relationship_kind \in DOMAIN model.rels
         THEN RelReturns(model, ListValue(model.rels[relationship_kind]))
         ELSE RelReturns(model, NoneValue)
    ELSE RelReturns(model, NoneValue)

\* line 530 as it would be comparing the first kind only
same_pair_by_kind_a(relationship, entity_kind_a, entity_kind_b) ==
    relationship.kind_a = entity_kind_a

\* line 530: [entity_kind_a, entity_kind_b] == [relationship[0], relationship[1]]
same_pair(relationship, entity_kind_a, entity_kind_b) ==
    relationship.kind_a = entity_kind_a /\ relationship.kind_b = entity_kind_b

RECURSIVE pop_while_enumerating(_, _, _, _)
\* lines 529-531: enumerate() over the list that the body pops from; the
\* iterator moves on to index idx + 1 of the list as it then is
pop_while_enumerating(list, entity_kind_a, entity_kind_b, idx) ==
    IF idx > Len(list) THEN list
    ELSE IF same_pair(list[idx], entity_kind_a, entity_kind_b)
         THEN pop_while_enumerating(ListPop(list, idx), entity_kind_a, entity_kind_b, idx + 1)
         ELSE pop_while_enumerating(list, entity_kind_a, entity_kind_b, idx + 1)

\* delete_relationship_kind as it would be if an unknown relationship kind
\* were logged instead of raised
delete_relationship_kind_silent(model, entity_kind_a, relationship_kind, entity_kind_b) ==
    IF ~model.is_none /\ relationship_kind \in DOMAIN model.rels
    THEN RelReturns([model EXCEPT !.rels[relationship_kind] =
                        pop_while_enumerating(@, entity_kind_a, entity_kind_b, 1)],
                    NoneValue)
    ELSE RelReturns(model, NoneValue)

\* delete_relationship_kind as it would be if a relationship kind left
\* without triples were removed from the data model
delete_relationship_kind_dropping_empty(model, entity_kind_a, relationship_kind, entity_kind_b) ==
    IF ~model.is_none /\ relationship_kind \in DOMAIN model.rels
    THEN LET left == pop_while_enumerating(model.rels[relationship_kind],
                                           entity_kind_a, entity_kind_b, 1)
         IN IF left = <<>>
            THEN RelReturns([model EXCEPT !.rels =
                                [k \in (DOMAIN model.rels) \ {relationship_kind} |-> model.rels[k]]],
                            NoneValue)
            ELSE RelReturns([model EXCEPT !.rels[relationship_kind] = left], NoneValue)
    ELSE RelRaises(model, "ValueError")

delete_relationship_kind(model, entity_kind_a, relationship_kind, entity_kind_b) ==
    IF ~model.is_none
    THEN IF relationship_kind \in DOMAIN model.rels
         THEN RelReturns([model EXCEPT !.rels[relationship_kind] =
                             pop_while_enumerating(@, entity_kind_a, entity_kind_b, 1)],
                         NoneValue)
         ELSE RelRaises(model, "ValueError")
    ELSE RelRaises(model, "ValueError")

\* lines 560-561: new_property_types defaults to [str] * len(new_property_kinds)
default_new_property_types(new_property_kinds, types_arg) ==
    IF types_arg = NoneArg THEN [i \in 1..Len(new_property_kinds) |-> "str"] ELSE types_arg

\* line 580 reads kind_a and kind_b, which are no parameters, locals or
\* globals: the first triple the loop meets ends the call with NameError,
\* before the save
create_relationship_property_kinds(model, relationship_kind, new_property_kinds, types_arg) ==
    LET new_property_types == default_new_property_types(new_property_kinds, types_arg)
    IN IF Len(new_property_kinds) # Len(new_property_types)
       THEN RelRaises(model, "AssertionError")
       ELSE IF model.is_none
       THEN RelReturns(model, NoneValue)
       ELSE IF relationship_kind \in DOMAIN model.rels
       THEN IF Len(model.rels[relationship_kind]) > 0
            THEN RelRaises(model, "NameError")
            ELSE RelReturns(model, ListValue(model.rels[relationship_kind]))
       ELSE RelRaises(model, "ValueError")

----------------------------------------------------------------------------
(* _is_valid_relationship_model                                            *)

\* the booleans the check hands back
BoolValue(b) == [is_none |-> FALSE, triples |-> <<>>, bool |-> b]

RECURSIVE check_rel_properties(_, _, _, _)
\* lines 215-232: the loop over rel_property_kinds from index idx on; "False"
\* where the code logs and returns False, the exception that leaves the
\* loop, or "True" when the loop runs to its end
check_rel_properties(model_properties, rel_property_kinds, rel_property_values, idx) ==
    IF idx > Len(rel_property_kinds) THEN "True"
    ELSE LET prop == rel_property_kinds[idx]
         IN IF prop \notin DOMAIN model_properties THEN "False"
            ELSE IF idx > Len(rel_property_values) THEN "IndexError"
            ELSE IF type_differs(rel_property_values[idx], model_properties[prop].type)
                 THEN "False"
                 ELSE check_rel_properties(model_properties, rel_property_kinds,
                                           rel_property_values, idx + 1)

\* lines 213-233: the triples from index idx on; the first triple of the
\* pair whose properties fail ends the call
RECURSIVE check_rel_triples(_, _, _, _, _, _)
check_rel_triples(triples, kind_a, kind_b, rel_property_kinds, rel_property_values, idx) ==
    IF idx > Len(triples) THEN "True"
    ELSE IF same_pair(triples[idx], kind_a, kind_b)
         THEN LET ended == check_rel_properties(triples[idx].properties, rel_property_kinds,
                                                rel_property_values, 1)
              IN IF ended = "True"
                 THEN check_rel_triples(triples, kind_a, kind_b, rel_property_kinds,
                                        rel_property_values, idx + 1)
                 ELSE ended
         ELSE check_rel_triples(triples, kind_a, kind_b, rel_property_kinds,
                                rel_property_values, idx + 1)

_is_valid_relationship_model(model, kind_a, relationship_kind, kind_b, rel_property_kinds, rel_property_values) ==
    IF model.is_none THEN RelReturns(model, BoolValue(FALSE))
    ELSE IF relationship_kind \notin DOMAIN model.rels THEN RelReturns(model, BoolValue(FALSE))
    ELSE IF ~pair_registered(model.rels[relationship_kind], kind_a, kind_b)
    THEN RelRaises(model, "ValueError")
    ELSE LET ended == check_rel_triples(model.rels[relationship_kind], kind_a, kind_b,
                                        rel_property_kinds, rel_property_values, 1)
         IN CASE ended = "True" -> RelReturns(model, BoolValue(TRUE))
              [] ended = "False" -> RelReturns(model, BoolValue(FALSE))
              [] OTHER -> RelRaises(model, ended)

----------------------------------------------------------------------------
(* TerminusdbOntologyConfig: names and the statements of the schema graph  *)

\* longest list of kinds handed to one call of a batch method
MaxBatch == 2

\* a name is a sequence of tokens read one after the other:
\* <<"User", "Group">> is the string "UserGroup"
User == <<"User">>
UserGroup == <<"User", "Group">>
UserGroupAdmin == <<"User", "Group", "Admin">>
Person == <<"Person">>
Abstract == <<"Abstract">>
TdbKinds == {User, UserGroup, UserGroupAdmin, Person}
\* None where a kind is expected
NoKind == <<>>

Owned == <<"OWNED">>
OwnedBy == <<"OWNED", "_BY">>
Has_parent == <<"Has_parent">>
Labels == {Owned, OwnedBy}

Name == <<"Name">>
Nick == <<"nick">>

\* s.startswith(t), and "t in s" where t is cut off s by a delimiter on
\* its left only
StartsWith(s, t) == Len(t) <= Len(s) /\ SubSeq(s, 1, Len(t)) = t

\* an Optional[List] argument: None, or a list
NoList == [is_none |-> TRUE, list |-> <<>>]
SomeList(list) == [is_none |-> FALSE, list |-> list]

\* what the client answers to a write: the status of its reply, or the
\* DatabaseError it raises
StoreAnswers == {"api:success", "api:failure", "DatabaseError"}

\* lines 666-668: <schema#{entity_kind}/{property}/{type_family}+xsd%3A{prop_type}>
_form_property_uri(entity_kind, property, prop_type, type_family) ==
    [kind |-> entity_kind, predicate |-> <<property>>, family |-> type_family,
     target |-> <<"xsd%3A", prop_type>>]

\* lines 670-672: <schema#{entity_kind}/{relationship}/Set+{related_kind}>,
\* the relationship being the two segments label/kind_b
_form_relationship_uri(entity_kind, relationship, related_kind) ==
    [kind |-> entity_kind, predicate |-> relationship, family |-> "Set",
     target |-> related_kind]

\* lines 877-878: "".join([rel_kind, "/", kind_b])
_rel_kinds2full_qualified_rel_kinds(rel_kind, kind_b) == <<rel_kind, kind_b>>

\* lines 856-875
tdb_type2str(item) ==
    CASE item = "str" -> "string"
      [] item = "int" -> "integer"
      [] item = "list" -> "List"
      [] item = "set" -> "Set"
      [] item = "Optional" -> "Optional"
      [] item = "Mandatory" -> "Mandatory"
      [] OTHER -> None

\* line 721
valid_type_families == {"list", "set", "Optional", "Mandatory"}

\* the schema graph: the class statements by their subject, the slot
\* definition statements by their URI, and the documentation statements
\* that carry the labels
EmptySchema == [classes |-> [k \in {} |-> {}], definitions |-> {}, documentation |-> {}]

\* a class statement:  <schema#K> a sys:Class ; sys:inherits <schema#P> ;
\*                         <schema#predicate> <uri> ; ...
ClassStatement(inherits, mentions) == [inherits |-> inherits, mentions |-> mentions]
Mention(predicate, uri) == [predicate |-> predicate, uri |-> uri]

\* the text one call of _create_or_update_schema returns: one class
\* statement and the slot definitions that follow it
SchemaPart(entity_kind, inherits, mentions, definitions) ==
    [kind |-> entity_kind, inherits |-> inherits, mentions |-> mentions,
     definitions |-> definitions]

PartReturns(part) == [outcome |-> "return", part |-> part]
PartRaises(error) == [outcome |-> error, part |-> SchemaPart(NoKind, {}, {}, {})]

\* lines 699-702
inherits_parent(parent) == IF parent # NoKind THEN {parent} ELSE {}

\* lines 704-750: the mentions and the definitions of the property kinds
\* of a call whose lists passed the checks
property_statements(entity_kind, property_kinds, property_types, properties_type_families) ==
    LET n == Len(property_kinds)
        shorter(a, b) == IF a < b THEN a ELSE b
        \* zip() stops at the shortest list
        m == shorter(n, shorter(Len(property_types), Len(properties_type_families)))
        uri(i) == _form_property_uri(entity_kind, property_kinds[i],
                                     tdb_type2str(property_types[i]),
                                     tdb_type2str(properties_type_families[i]))
    IN [mentions |-> {Mention(<<property_kinds[i]>>, uri(i)) : i \in 1..m},
        definitions |-> {uri(i) : i \in {j \in 1..m :
                                    tdb_type2str(properties_type_families[j]) # "Mandatory"}}]

\* the checks as they would be if they were left out
families_checked_never(property_kinds, property_types, properties_type_families) == "passed"

\* lines 705-726: the assertions on the lengths and the test of the type
\* families; "passed", or the error that ends the call
families_checked(property_kinds, property_types, properties_type_families) ==
    IF (~property_types.is_none) /\ Len(property_types.list) # Len(property_kinds)
    THEN "AssertionError"
    ELSE IF properties_type_families.is_none THEN "passed"
    ELSE IF Len(properties_type_families.list) # Len(property_kinds)
    THEN "AssertionError"
    ELSE IF \E i \in 1..Len(properties_type_families.list) :
               properties_type_families.list[i] \notin valid_type_families
    THEN "ValueError"
    ELSE "passed"

\* lines 687-784 for a call that names properties, a parent or neither
_create_or_update_schema(entity_kind, parent, property_kinds, property_types, properties_type_families) ==
    IF property_kinds.is_none
    THEN PartReturns(SchemaPart(entity_kind, inherits_parent(parent), {}, {}))
    ELSE LET checked == families_checked(property_kinds.list, property_types,
                                         properties_type_families)
             n == Len(property_kinds.list)
             types == IF property_types.is_none THEN [i \in 1..n |-> "str"]
                      ELSE property_types.list
             families == IF properties_type_families.is_none THEN [i \in 1..n |-> "Optional"]
                         ELSE properties_type_families.list
             statements == property_statements(entity_kind, property_kinds.list, types, families)
         IN IF checked # "passed" THEN PartRaises(checked)
            ELSE PartReturns(SchemaPart(entity_kind, inherits_parent(parent),
                                        statements.mentions, statements.definitions))

\* lines 753-770 for a call that names one relationship kind
_create_or_update_schema_relationship(entity_kind, relationship_kind, related_kind) ==
    LET rel_uri == _form_relationship_uri(entity_kind, relationship_kind, related_kind)
    IN PartReturns(SchemaPart(entity_kind, {}, {Mention(relationship_kind, rel_uri)}, {rel_uri}))

\* the client's insert_triples on the schema graph: the triples of the
\* text join those of the graph
insert_triples(schema, parts) ==
    LET subjects == {parts[i].kind : i \in 1..Len(parts)}
        stated(k) == {parts[i] : i \in {j \in 1..Len(parts) : parts[j].kind = k}}
        before(k) == IF k \in DOMAIN schema.classes THEN schema.classes[k]
                     ELSE ClassStatement({}, {})
    IN [schema EXCEPT
          !.classes = [k \in (DOMAIN schema.classes) \cup subjects |->
                          ClassStatement(
                              before(k).inherits \cup UNION {p.inherits : p \in stated(k)},
                              before(k).mentions \cup UNION {p.mentions : p \in stated(k)})],
          !.definitions = @ \cup UNION {parts[i].definitions : i \in 1..Len(parts)}]

\* lines 786-813: what the commit leaves in the graph under the answer of
\* the client
_commit_to_schema(schema, parts, answer) ==
    IF answer = "api:success" THEN insert_triples(schema, parts) ELSE schema

----------------------------------------------------------------------------
(* TerminusdbOntologyConfig: the methods that write                        *)

\* the documents written through self.kg: the instances 'Abstract/<kind>'
\* and the Has_parent relationships between them
NoDocuments == [instances |-> {}, has_parent |-> {}]

\* how a call ends: the schema graph and the documents it leaves, and its
\* return value or the exception that leaves it
TdbReturns(schema, documents, result) ==
    [schema |-> schema, documents |-> documents, outcome |-> "return", result |-> result]
TdbRaises(schema, documents, error) ==
    [schema |-> schema, documents |-> documents, outcome |-> error, result |-> None]

\* an entry of a batch of create_entity_kinds
KindItem(entity_kind, parent) == [kind |-> entity_kind, parent |-> parent]

\* lines 646-664
_create_abstract_instances(documents, items) ==
    [documents EXCEPT
       !.instances = @ \cup {items[i].kind : i \in 1..Len(items)},
       !.has_parent = @ \cup {<<items[i].kind, items[i].parent>> :
                                 i \in {j \in 1..Len(items) : items[j].parent # NoKind}}]

\* lines 955-983
create_entity_kinds(schema, documents, items, answer) ==
    LET entity_kinds == [i \in 1..Len(items) |-> items[i].kind]
        written == IF entity_kinds # <<Abstract>>
                   THEN _create_abstract_instances(documents, items) ELSE documents
        parts == [i \in 1..Len(items) |->
                     _create_or_update_schema(items[i].kind, items[i].parent,
                                              NoList, NoList, NoList).part]
    IN IF Len(items) = 0
       THEN \* line 979 reads ttl_schema, which only the loop body assigns
            TdbRaises(schema, written, "UnboundLocalError")
       ELSE IF answer = "api:success"
       THEN TdbReturns(_commit_to_schema(schema, parts, answer), written, "abstract_kinds_instances")
       ELSE TdbRaises(_commit_to_schema(schema, parts, answer), written, "DatabaseError")

\* an entry of a batch of create_property_kinds_of_entity_kinds
PropertyItem(entity_kind, property_kinds, property_types, properties_type_families) ==
    [kind |-> entity_kind, property_kinds |-> property_kinds,
     property_types |-> property_types, properties_type_families |-> properties_type_families]

\* the position in the batch of the first entry whose lists the checks of
\* _create_or_update_schema reject, 0 when they pass them all
first_rejected(items) ==
    LET rejected == {i \in 1..Len(items) :
                        _create_or_update_schema(items[i].kind, NoKind, items[i].property_kinds,
                                                 items[i].property_types,
                                                 items[i].properties_type_families).outcome
                        # "return"}
    IN IF rejected = {} THEN 0 ELSE CHOOSE i \in rejected : \A j \in rejected : i <= j

\* lines 1026-1058
create_property_kinds_of_entity_kinds(schema, documents, items, answer) ==
    LET made == [i \in 1..Len(items) |->
                    _create_or_update_schema(items[i].kind, NoKind, items[i].property_kinds,
                                             items[i].property_types,
                                             items[i].properties_type_families)]
        failed == {i \in 1..Len(items) : made[i].outcome # "return"}
        first_failed == CHOOSE i \in failed : \A j \in failed : i <= j
        parts == [i \in 1..Len(items) |-> made[i].part]
    IN IF failed # {}
       THEN TdbRaises(schema, documents, made[first_failed].outcome)
       ELSE IF answer = "DatabaseError"
       THEN TdbRaises(schema, documents, "DatabaseError")
       ELSE TdbReturns(_commit_to_schema(schema, parts, answer), documents, answer)

\* an entry of a batch of create_relationship_kinds
RelationshipItem(entity_kind_a, relationship_kind, entity_kind_b) ==
    [kind_a |-> entity_kind_a, label |-> relationship_kind, kind_b |-> entity_kind_b]

\* lines 1089-1109: the documentation statements that give each property
\* kind of the batch its label
update_labels_of_property_kinds(schema, items) ==
    [schema EXCEPT !.documentation = @ \cup
        {[kind |-> items[i].kind_a,
          predicate |-> _rel_kinds2full_qualified_rel_kinds(items[i].label, items[i].kind_b),
          label |-> items[i].label] : i \in 1..Len(items)}]

\* lines 1127-1153: the status of the commit is not read; the labels are
\* written whenever the commit has not raised
create_relationship_kinds(schema, documents, items, answer) ==
    LET parts == [i \in 1..Len(items) |->
                     _create_or_update_schema_relationship(
                         items[i].kind_a,
                         _rel_kinds2full_qualified_rel_kinds(items[i].label, items[i].kind_b),
                         items[i].kind_b).part]
        committed == _commit_to_schema(schema, parts, answer)
    IN IF answer = "DatabaseError"
       THEN TdbRaises(schema, documents, "DatabaseError")
       ELSE IF Len(items) = 0
       THEN \* line 1090: pop from an empty list
            TdbRaises(committed, documents, "IndexError")
       ELSE TdbReturns(update_labels_of_property_kinds(committed, items), documents, "labels")

\* lines 641-644: the schema graph the constructor leaves in an empty
\* database whose client accepts the three writes
AbstractSchema ==
    LET kind == create_entity_kinds(EmptySchema, NoDocuments, <<KindItem(Abstract, NoKind)>>,
                                    "api:success")
        property == create_property_kinds_of_entity_kinds(
                        kind.schema, kind.documents,
                        <<PropertyItem(Abstract, SomeList(<<Name>>), SomeList(<<"str">>), NoList)>>,
                        "api:success")
        relationship == create_relationship_kinds(
                            property.schema, property.documents,
                            <<RelationshipItem(Abstract, Has_parent, Abstract)>>, "api:success")
    IN relationship.schema

----------------------------------------------------------------------------
(* TerminusdbOntologyConfig: the methods that cut statements out of the    *)
(* schema text.  _get_schema() hands the graph back as Turtle, one         *)
(* statement per subject and one predicate per line; the methods split it  *)
(* at " ." and test each statement for substrings                          *)

\* f"<schema#{name}>" in instruction, for a class statement: its subject,
\* a class it inherits, or a predicate of one segment
class_statement_holds(kind, statement, name) ==
    \/ kind = name
    \/ name \in statement.inherits
    \/ \E mention \in statement.mentions : mention.predicate = <<name>>

\* a slot definition of a relationship kind:  <uri> a sys:Set ;
\*                                             sys:class <schema#related>
is_relationship_uri(uri) == Len(uri.predicate) = 2

\* line 1004: f"<schema#{name}" in instruction, for a slot definition: the
\* kind its URI begins with, or the class it points at, begins with name
definition_begins_with(uri, name) ==
    \/ StartsWith(uri.kind, name)
    \/ is_relationship_uri(uri) /\ StartsWith(uri.target, name)

\* line 1004 for a documentation statement
\*   <schema#K/0/documentation/Documentation/properties/predicate>
\*       <schema#predicate> "label"
documentation_begins_with(doc, name) ==
    \/ StartsWith(doc.kind, name)
    \/ StartsWith(doc.predicate[1], name)

\* line 1000: <schema#\w*/\w*/\w*\+{entity_kind}> matches a URI of three
\* segments whose last one ends with +entity_kind
pattern_of_rel_with_kind_b_equal_entity_kind(uri, entity_kind) ==
    Len(uri.predicate) = 1 /\ uri.target = entity_kind

\* lines 1001-1012: the statements that are left
without_entity_kind(schema, entity_kind) ==
    LET pattern(uri) == pattern_of_rel_with_kind_b_equal_entity_kind(uri, entity_kind)
        kept == {k \in DOMAIN schema.classes :
                    ~class_statement_holds(k, schema.classes[k], entity_kind)}
    IN [classes |-> [k \in kept |->
                        \* line 1010: the lines the pattern matches are cut out
                        [schema.classes[k] EXCEPT
                            !.mentions = {m \in @ : ~pattern(m.uri)}]],
        definitions |-> {uri \in schema.definitions :
                            ~(definition_begins_with(uri, entity_kind) \/ pattern(uri))},
        documentation |-> {doc \in schema.documentation :
                              ~documentation_begins_with(doc, entity_kind)}]

\* lines 851-854 and 1013-1016: update_triples replaces the graph when the
\* client accepts the text; its DatabaseError is caught and logged, and the
\* method returns None
update_triples_logged(schema, documents, reduced, answer) ==
    IF answer = "api:success" THEN TdbReturns(reduced, documents, answer)
    ELSE IF answer = "DatabaseError" THEN TdbReturns(schema, documents, None)
    ELSE TdbReturns(schema, documents, answer)

\* lines 996-1016
tdb_delete_entity_kind(schema, documents, entity_kind, answer) ==
    update_triples_logged(schema, documents, without_entity_kind(schema, entity_kind), answer)

\* line 829: f"<schema#{entity_kind}/{property_kind}/" in instruction, for
\* a slot definition: the segments of its URI begin with the kind and the
\* segments of the name
definition_of(uri, entity_kind, property_kind) ==
    uri.kind = entity_kind /\ StartsWith(uri.predicate, property_kind)

\* lines 824-848: the statements that are left
without_property_kinds(schema, entity_kind, property_kinds) ==
    LET names == Range(property_kinds)
    IN [classes |-> [k \in DOMAIN schema.classes |->
                        IF class_statement_holds(k, schema.classes[k], entity_kind)
                        THEN \* lines 842-845: <schema#{property_kind}>.*; is cut out
                             [schema.classes[k] EXCEPT
                                 !.mentions = {m \in @ : m.predicate \notin names}]
                        ELSE schema.classes[k]],
        definitions |-> {uri \in schema.definitions :
                            ~\E name \in names : definition_of(uri, entity_kind, name)},
        documentation |-> schema.documentation]

\* lines 815-854
_delete_from_schema(schema, documents, entity_kind, property_kinds, answer) ==
    update_triples_logged(schema, documents,
                          without_property_kinds(schema, entity_kind, property_kinds), answer)

----------------------------------------------------------------------------
(* TerminusdbOntologyConfig: relationship kinds by label and entity kinds  *)

\* the orders in which the elements of a set can come out of it
Orderings(S) ==
    {order \in [1..Cardinality(S) -> S] :
        \A i, j \in 1..Cardinality(S) : order[i] = order[j] => i = j}

\* lines 1167-1185: the triples (kind_a, rel, kind_b) of the schema graph
\* whose predicate rel carries one of the labels in a documentation
\* statement; the set of line 1184 holds each of them once
relationship_kinds_by_labels(schema, labels) ==
    LET labelled(predicate) == \E doc \in schema.documentation :
                                  doc.predicate = predicate /\ doc.label \in labels
    IN UNION {{[kind_a |-> k, rel |-> mention.predicate, kind_b |-> mention.uri.target] :
                  mention \in {m \in schema.classes[k].mentions : labelled(m.predicate)}} :
              k \in DOMAIN schema.classes}

\* lines 894-898: allowed_relationships[(kind_a, kind_b)], in the order of
\* allowed_rels; the empty list stands for a missing key
allowed_relationships(allowed_rels, kind_a, kind_b) ==
    LET of_pair(dic) == dic.kind_a = kind_a /\ dic.kind_b = kind_b
        selected == SelectSeq(allowed_rels, of_pair)
    IN [i \in 1..Len(selected) |-> selected[i].rel]

\* lines 935-953: the classes the schema graph has entity_kind inherit
\* directly, as the list the bindings of the query fill
_get_parents_of_entity_kinds(schema, entity_kind) ==
    IF entity_kind \in DOMAIN schema.classes
    THEN CHOOSE order \in Orderings(schema.classes[entity_kind].inherits) : TRUE
    ELSE <<>>

\* lines 913-916: parents[kind] + [kind]
rel_terminals(schema, entity_kind) ==
    _get_parents_of_entity_kinds(schema, entity_kind) \o <<entity_kind>>

\* lines 918-919: the pairs in the order the two loops visit them
walk(schema, kind_a, kind_b) ==
    LET kinds_a == rel_terminals(schema, kind_a)
        kinds_b == rel_terminals(schema, kind_b)
    IN [i \in 1..(Len(kinds_a) * Len(kinds_b)) |->
           <<kinds_a[((i - 1) \div Len(kinds_b)) + 1], kinds_b[((i - 1) % Len(kinds_b)) + 1]>>]

Resolved(rel, pair) == [outcome |-> "return", rel |-> rel, pair |-> pair]
NotResolved(error) == [outcome |-> error, rel |-> <<>>, pair |-> <<>>]

\* lines 905-910 and 921-926: the first rel of the pair that starts with
\* the label, or ValueError
first_rel_of_pair(allowed_rels, pair, relationship_label) ==
    LET rels == allowed_relationships(allowed_rels, pair[1], pair[2])
        starting == {i \in 1..Len(rels) : StartsWith(rels[i][1], relationship_label)}
    IN IF starting = {} THEN NotResolved("ValueError")
       ELSE Resolved(rels[CHOOSE i \in starting : \A j \in starting : i <= j], pair)

\* lines 903-932 for one entry of the batch
resolve_relationship(schema, allowed_rels, item) ==
    LET registered(pair) == Len(allowed_relationships(allowed_rels, pair[1], pair[2])) > 0
        pairs == walk(schema, item.kind_a, item.kind_b)
        found == {i \in 1..Len(pairs) : registered(pairs[i])}
    IN IF registered(<<item.kind_a, item.kind_b>>)
       THEN first_rel_of_pair(allowed_rels, <<item.kind_a, item.kind_b>>, item.label)
       ELSE IF found = {} THEN NotResolved("ValueError")
       ELSE first_rel_of_pair(allowed_rels,
                              pairs[CHOOSE i \in found : \A j \in found : i <= j],
                              item.label)

\* lines 886-933: allowed_rels is the list line 891 receives, the triples
\* of relationship_kinds_by_labels in the order the set of line 1184
\* hands them out
_get_relationship_kinds_by_labels_and_entity_kinds(schema, items, allowed_rels) ==
    LET each == [i \in 1..Len(items) |-> resolve_relationship(schema, allowed_rels, items[i])]
        failed == {i \in 1..Len(items) : each[i].outcome # "return"}
    IN IF Len(items) = 0
       THEN \* line 1169: pop from an empty list
            [outcome |-> "IndexError", result |-> <<>>, resolved |-> <<>>]
       ELSE IF failed # {}
       THEN [outcome |-> each[CHOOSE i \in failed : \A j \in failed : i <= j].outcome,
             result |-> <<>>, resolved |-> <<>>]
       ELSE [outcome |-> "return",
             result |-> [i \in 1..Len(items) |-> each[i].rel],
             resolved |-> [i \in 1..Len(items) |-> each[i].pair]]

----------------------------------------------------------------------------
(* Two processes on one pickle file: a call loads the whole tree           *)
(* (_load_ontology_kinds_hierarchy), mutates its copy, and writes the      *)
(* whole copy back (_save_ontology_kinds_hierarchy); nothing serialises    *)
(* the calls of different processes                                        *)

Writers == {"w1", "w2"}
\* the calls the writers make: both create and delete kinds below the root
WriterOps == {"create_entity_kind", "delete_entity_kind"}
WriterKinds == {"A", "B"}

\* a process outside any call
IdleWriter == [pc |-> "idle", op |-> None, kind |-> None, tree |-> NoTree]

\* the file as it would be if a save added the nodes of the saved tree to
\* the nodes the file holds
persisted_after_save_merged(file, tree) ==
    [is_none |-> FALSE,
     nodes |-> [k \in (DOMAIN file.nodes) \cup (DOMAIN tree.nodes) |->
                  IF k \in DOMAIN tree.nodes THEN tree.nodes[k] ELSE file.nodes[k]]]

\* lines 99-102: open(path, "wb") and pickle.dump(tree, file): the file
\* holds the saved tree and nothing of what it held before
persisted_after_save(file, tree) == tree

\* the call of a writer run on the tree it loaded: what it would save
writer_call(op, kind, tree) ==
    IF op = "create_entity_kind"
    THEN create_entity_kind(tree, kind, "Kind", NoneArg, NoneArg, NoneArg, 1)
    ELSE delete_entity_kind(tree, kind)

\* the call reaches _save_ontology_kinds_hierarchy: create_entity_kind
\* when create_node did not raise DuplicatedNodeIdError (line 314),
\* delete_entity_kind when the kind was found (line 332)
writer_saves(op, kind, tree) ==
    IF op = "create_entity_kind"
    THEN ~has_node(load_or_new_tree(tree), kind)
    ELSE (~tree.is_none) /\ _get_node_from_tree(tree, kind)

----------------------------------------------------------------------------
(* State machine                                                           *)

\* the last call: the method, the kind it was given, how it ended, what it
\* returned, whether the pickle on disk differs from the one the call found,
\* and the kinds that left the tree
CallRecord(op, kind, r) ==
    [op |-> op, kind |-> kind,
     outcome |-> r.outcome, result |-> r.result,
     changed |-> (r.file # ontology_kinds_hierarchy),
     removed |-> (DOMAIN ontology_kinds_hierarchy.nodes) \ (DOMAIN r.file.nodes)]

\* the last call on the data model: the method, the relationship kind it
\* was given, how it ended, what it returned and whether the JSON file on
\* disk differs from the one the call found
RelCallRecord(op, relationship_kind, r) ==
    [op |-> op, relationship_kind |-> relationship_kind,
     outcome |-> r.outcome, result |-> r.result,
     changed |-> (r.model # ontology_data_model)]

\* the last call on the TerminusDB configuration: the method, what the
\* call was about, how it ended, what it returned, whether the schema
\* graph differs from the one the call found, and whether documents were
\* written
TdbCallRecord(op, detail, r) ==
    [op |-> op, detail |-> detail, outcome |-> r.outcome, result |-> r.result,
     changed |-> (r.schema # client_schema), wrote |-> (r.documents # kg_documents)]

Init ==
    /\ ontology_kinds_hierarchy = NoTree
    /\ call = [op |-> "init", kind |-> None, outcome |-> "return",
               result |-> NoneResult, changed |-> FALSE, removed |-> {}]
    /\ ontology_data_model = NoModel
    /\ rel_call = [op |-> "init", relationship_kind |-> None, outcome |-> "return",
                   result |-> NoneValue, changed |-> FALSE]
    /\ client_schema = AbstractSchema
    /\ kg_documents = NoDocuments
    /\ tdb_call = [op |-> "init", detail |-> 0, outcome |-> "return", result |-> None,
                   changed |-> FALSE, wrote |-> FALSE]
    /\ writers = [w \in Writers |-> IdleWriter]
    /\ last_saver = None

CreateEntityKind ==
    \E kind \in Kinds, parent \in Kinds, kind_properties \in PropLists,
       kind_property_types \in TypeArgs, kind_property_measurement_units \in UnitArgs :
        \E r \in {create_entity_kind(ontology_kinds_hierarchy, kind, parent, kind_properties,
                                    kind_property_types, kind_property_measurement_units, 1)} :
           /\ ontology_kinds_hierarchy' = r.file
           /\ call' = CallRecord("create_entity_kind", kind, r)
           /\ UNCHANGED <<ontology_data_model, rel_call, client_schema, kg_documents, tdb_call,
                        writers, last_saver>>

\* delete_entity_kind as it would be if it also dropped, from the data
\* model, the triples that name a kind it removes
DeleteEntityKindCascading ==
    \E entity_kind \in Kinds :
        \E r \in {delete_entity_kind(ontology_kinds_hierarchy, entity_kind)} :
           LET removed == (DOMAIN ontology_kinds_hierarchy.nodes) \ (DOMAIN r.file.nodes)
               stays(triple) == triple.kind_a \notin removed /\ triple.kind_b \notin removed
           IN /\ ontology_kinds_hierarchy' = r.file
              /\ call' = CallRecord("delete_entity_kind", entity_kind, r)
              /\ ontology_data_model' =
                    [ontology_data_model EXCEPT !.rels =
                        [k \in DOMAIN ontology_data_model.rels |->
                            SelectSeq(ontology_data_model.rels[k], stays)]]
              /\ UNCHANGED <<rel_call, client_schema, kg_documents, tdb_call,
                             writers, last_saver>>

DeleteEntityKind ==
    \E entity_kind \in Kinds :
        \E r \in {delete_entity_kind(ontology_kinds_hierarchy, entity_kind)} :
           /\ ontology_kinds_hierarchy' = r.file
           /\ call' = CallRecord("delete_entity_kind", entity_kind, r)
           /\ UNCHANGED <<ontology_data_model, rel_call, client_schema, kg_documents, tdb_call,
                        writers, last_saver>>

GetEntityKind ==
    \E entity_kind \in Kinds :
        \E r \in {get_entity_kind(ontology_kinds_hierarchy, entity_kind)} :
           /\ ontology_kinds_hierarchy' = r.file
           /\ call' = CallRecord("get_entity_kind", entity_kind, r)
           /\ UNCHANGED <<ontology_data_model, rel_call, client_schema, kg_documents, tdb_call,
                        writers, last_saver>>

CreatePropertyKindsOfEntityKind ==
    \E kind \in Kinds, property_kinds \in PropLists, property_types \in TypeArgs :
        \E r \in {create_property_kinds_of_entity_kind(
                     ontology_kinds_hierarchy, kind, property_kinds, property_types)} :
           /\ ontology_kinds_hierarchy' = r.file
           /\ call' = CallRecord("create_property_kinds_of_entity_kind", kind, r)
           /\ UNCHANGED <<ontology_data_model, rel_call, client_schema, kg_documents, tdb_call,
                        writers, last_saver>>

DeletePropertyKinds ==
    \E entity_kind \in Kinds, property_kinds \in DelLists :
        \E r \in {delete_property_kinds(ontology_kinds_hierarchy, entity_kind, property_kinds)} :
           /\ ontology_kinds_hierarchy' = r.file
           /\ call' = CallRecord("delete_property_kinds", entity_kind, r)
           /\ UNCHANGED <<ontology_data_model, rel_call, client_schema, kg_documents, tdb_call,
                        writers, last_saver>>

DeletePropertyKind ==
    \E entity_kind \in Kinds, property_kind \in PropNames :
        \E r \in {delete_property_kind(ontology_kinds_hierarchy, entity_kind, property_kind)} :
           /\ ontology_kinds_hierarchy' = r.file
           /\ call' = CallRecord("delete_property_kind", entity_kind, r)
           /\ UNCHANGED <<ontology_data_model, rel_call, client_schema, kg_documents, tdb_call,
                        writers, last_saver>>

CheckEntityKindPropertiesValidity ==
    \E entity_kind \in Kinds, list_of_property_kinds \in PropLists,
       list_of_property_values \in SeqsUpTo(ValueTypes, MaxProps) :
        \E r \in {_check_entity_kind_properties_validity(
                     ontology_kinds_hierarchy, list_of_property_kinds,
                     list_of_property_values, entity_kind)} :
           /\ ontology_kinds_hierarchy' = r.file
           /\ call' = CallRecord("_check_entity_kind_properties_validity", entity_kind, r)
           /\ UNCHANGED <<ontology_data_model, rel_call, client_schema, kg_documents, tdb_call,
                        writers, last_saver>>

CreateRelationshipKind ==
    \E entity_kind_a \in PairKinds, relationship_kind \in RelationshipKinds,
       entity_kind_b \in PairKinds :
        \E r \in {create_relationship_kind(ontology_data_model, entity_kind_a,
                                          relationship_kind, entity_kind_b)} :
           /\ ontology_data_model' = r.model
           /\ rel_call' = RelCallRecord("create_relationship_kind", relationship_kind, r)
           /\ UNCHANGED <<ontology_kinds_hierarchy, call, client_schema, kg_documents, tdb_call,
                        writers, last_saver>>

GetRelationshipKind ==
    \E relationship_kind \in RelationshipKinds :
        \E r \in {get_relationship_kind(ontology_data_model, relationship_kind)} :
           /\ ontology_data_model' = r.model
           /\ rel_call' = RelCallRecord("get_relationship_kind", relationship_kind, r)
           /\ UNCHANGED <<ontology_kinds_hierarchy, call, client_schema, kg_documents, tdb_call,
                        writers, last_saver>>

DeleteRelationshipKind ==
    \E entity_kind_a \in PairKinds, relationship_kind \in RelationshipKinds,
       entity_kind_b \in PairKinds :
        \E r \in {delete_relationship_kind(ontology_data_model, entity_kind_a,
                                          relationship_kind, entity_kind_b)} :
           /\ ontology_data_model' = r.model
           /\ rel_call' = RelCallRecord("delete_relationship_kind", relationship_kind, r)
           /\ UNCHANGED <<ontology_kinds_hierarchy, call, client_schema, kg_documents, tdb_call,
                        writers, last_saver>>

CreateRelationshipPropertyKinds ==
    \E relationship_kind \in RelationshipKinds, new_property_kinds \in PropLists,
       new_property_types \in TypeArgs :
        \E r \in {create_relationship_property_kinds(ontology_data_model, relationship_kind,
                                                    new_property_kinds, new_property_types)} :
           /\ ontology_data_model' = r.model
           /\ rel_call' = RelCallRecord("create_relationship_property_kinds",
                                        relationship_kind, r)
           /\ UNCHANGED <<ontology_kinds_hierarchy, call, client_schema, kg_documents, tdb_call,
                        writers, last_saver>>

IsValidRelationshipModel ==
    \E kind_a \in PairKinds, relationship_kind \in RelationshipKinds, kind_b \in PairKinds,
       rel_property_kinds \in PropLists, rel_property_values \in SeqsUpTo(ValueTypes, MaxProps) :
        \E r \in {_is_valid_relationship_model(ontology_data_model, kind_a, relationship_kind,
                                              kind_b, rel_property_kinds, rel_property_values)} :
           /\ ontology_data_model' = r.model
           /\ rel_call' = RelCallRecord("_is_valid_relationship_model", relationship_kind, r)
           /\ UNCHANGED <<ontology_kinds_hierarchy, call, client_schema, kg_documents, tdb_call,
                        writers, last_saver>>

\* a process enters create_entity_kind(kind, "Kind") or
\* delete_entity_kind(kind) and loads the tree (lines 276, 326)
WriterLoads ==
    \E w \in Writers, op \in WriterOps, kind \in WriterKinds :
        /\ writers[w].pc # "loaded"
        /\ writers' = [writers EXCEPT ![w] = [pc |-> "loaded", op |-> op, kind |-> kind,
                                               tree |-> ontology_kinds_hierarchy]]
        /\ UNCHANGED <<ontology_kinds_hierarchy, call, ontology_data_model, rel_call,
                       client_schema, kg_documents, tdb_call, last_saver>>

\* the process runs the rest of its call on the copy it loaded (the parent
\* 'Kind' is in every tree a writer loads, so the call loads once) and, if
\* the call gets that far, writes the copy back
WriterSaves ==
    \E w \in Writers :
        /\ writers[w].pc = "loaded"
        /\ has_node(load_or_new_tree(writers[w].tree), "Kind")
        /\ \E r \in {writer_call(writers[w].op, writers[w].kind, writers[w].tree)} :
              IF writer_saves(writers[w].op, writers[w].kind, writers[w].tree)
              THEN /\ ontology_kinds_hierarchy' =
                          persisted_after_save(ontology_kinds_hierarchy, r.file)
                   /\ last_saver' = w
              ELSE UNCHANGED <<ontology_kinds_hierarchy, last_saver>>
        /\ writers' = [writers EXCEPT ![w].pc = "done"]
        /\ UNCHANGED <<call, ontology_data_model, rel_call, client_schema, kg_documents,
                       tdb_call>>

\* the batches the calls of the model are given: the chain
\* UserGroupAdmin -> UserGroup -> User next to Person for the queries by
\* label, and User, a UserGroup with or without the parent User, and a
\* Person that points at User for the calls that cut the schema text
ChainKindItems == {KindItem(UserGroup, User), KindItem(UserGroupAdmin, UserGroup)}
KindItems == {KindItem(User, NoKind), KindItem(UserGroup, NoKind), KindItem(UserGroup, User)}
ChainRelationshipItems ==
    {RelationshipItem(User, Owned, Person), RelationshipItem(User, OwnedBy, Person),
     RelationshipItem(UserGroup, Owned, User), RelationshipItem(User, Owned, User)}
RelationshipItems == {RelationshipItem(Person, Owned, User)}
PropertyKinds == {User, UserGroup}
\* entries whose lists are in order: the default family, or 'Mandatory'
ValidPropertyItems ==
    {PropertyItem(kind, SomeList(<<Nick>>), NoList, families) :
        kind \in PropertyKinds, families \in {NoList, SomeList(<<"Mandatory">>)}}
\* entries with a type list or a family list of another length than the
\* property list, or with the type family tuple
OffendingPropertyItems ==
    {PropertyItem(kind, SomeList(<<Nick>>), lists[1], lists[2]) :
        kind \in PropertyKinds,
        lists \in {<<SomeList(<<>>), NoList>>, <<NoList, SomeList(<<>>)>>,
                   <<NoList, SomeList(<<"tuple">>)>>}}
PropertyItems == ValidPropertyItems \cup OffendingPropertyItems
PlainPropertyItems == {PropertyItem(kind, SomeList(<<Nick>>), NoList, NoList) : kind \in PropertyKinds}
\* the names handed to delete_property_kinds / delete_relationship_kinds
DeletedNames == {<<Nick>>, <<Owned, User>>}
QueryItems ==
    {RelationshipItem(User, Owned, Person), RelationshipItem(User, OwnedBy, Person),
     RelationshipItem(UserGroup, Owned, Person), RelationshipItem(UserGroupAdmin, Owned, Person),
     RelationshipItem(UserGroup, Owned, UserGroup)}

TdbCreateEntityKinds(item_set) ==
    \E items \in SeqsUpTo(item_set, MaxBatch), answer \in StoreAnswers :
        \E r \in {create_entity_kinds(client_schema, kg_documents, items, answer)} :
           /\ client_schema' = r.schema
           /\ kg_documents' = r.documents
           /\ tdb_call' = TdbCallRecord("create_entity_kinds", 0, r)
           /\ UNCHANGED <<ontology_kinds_hierarchy, call, ontology_data_model, rel_call,
                        writers, last_saver>>

TdbCreatePropertyKindsOfEntityKinds(item_set) ==
    \E items \in SeqsUpTo(item_set, MaxBatch), answer \in StoreAnswers :
        \E r \in {create_property_kinds_of_entity_kinds(client_schema, kg_documents,
                                                         items, answer)} :
           /\ client_schema' = r.schema
           /\ kg_documents' = r.documents
           /\ tdb_call' = TdbCallRecord("create_property_kinds_of_entity_kinds",
                                        first_rejected(items), r)
           /\ UNCHANGED <<ontology_kinds_hierarchy, call, ontology_data_model, rel_call,
                        writers, last_saver>>

TdbCreateRelationshipKinds(item_set) ==
    \E items \in SeqsUpTo(item_set, 1), answer \in StoreAnswers :
        \E r \in {create_relationship_kinds(client_schema, kg_documents, items, answer)} :
           /\ client_schema' = r.schema
           /\ kg_documents' = r.documents
           /\ tdb_call' = TdbCallRecord("create_relationship_kinds", 0, r)
           /\ UNCHANGED <<ontology_kinds_hierarchy, call, ontology_data_model, rel_call,
                        writers, last_saver>>

TdbDeleteEntityKind ==
    \E entity_kind \in TdbKinds, answer \in StoreAnswers :
        \E r \in {tdb_delete_entity_kind(client_schema, kg_documents, entity_kind, answer)} :
           /\ client_schema' = r.schema
           /\ kg_documents' = r.documents
           /\ tdb_call' = TdbCallRecord("delete_entity_kind", 0, r)
           /\ UNCHANGED <<ontology_kinds_hierarchy, call, ontology_data_model, rel_call,
                        writers, last_saver>>

TdbDeletePropertyKinds ==
    \E entity_kind \in TdbKinds, property_kinds \in SeqsUpTo(DeletedNames, 1),
       answer \in StoreAnswers :
        \E r \in {_delete_from_schema(client_schema, kg_documents, entity_kind,
                                       property_kinds, answer)} :
           /\ client_schema' = r.schema
           /\ kg_documents' = r.documents
           /\ tdb_call' = TdbCallRecord("delete_property_kinds", 0, r)
           /\ UNCHANGED <<ontology_kinds_hierarchy, call, ontology_data_model, rel_call,
                        writers, last_saver>>

TdbGetRelationshipKindsByLabelsAndEntityKinds ==
    \E items \in SeqsUpTo(QueryItems, MaxBatch) :
        \E allowed_rels \in Orderings(relationship_kinds_by_labels(
                                          client_schema,
                                          {items[i].label : i \in 1..Len(items)})) :
            \E r \in {_get_relationship_kinds_by_labels_and_entity_kinds(
                          client_schema, items, allowed_rels)} :
               /\ tdb_call' = [op |-> "_get_relationship_kinds_by_labels_and_entity_kinds",
                               detail |-> Len(r.result), outcome |-> r.outcome,
                               result |-> None, changed |-> FALSE, wrote |-> FALSE]
               /\ UNCHANGED <<client_schema, kg_documents, ontology_kinds_hierarchy, call,
                              ontology_data_model, rel_call, writers, last_saver>>

Next ==
    \/ CreateEntityKind
    \/ DeleteEntityKind
    \/ GetEntityKind
    \/ CreatePropertyKindsOfEntityKind
    \/ DeletePropertyKinds

Spec == Init /\ [][Next]_vars

\* the calls that shape and read the property maps of the entity kinds
NextProperties ==
    \/ CreateEntityKind
    \/ DeleteEntityKind
    \/ DeletePropertyKinds
    \/ DeletePropertyKind
    \/ CheckEntityKindPropertiesValidity

SpecProperties == Init /\ [][NextProperties]_vars

\* the calls on the data model of the relationship kinds
NextRelationships ==
    \/ CreateRelationshipKind
    \/ GetRelationshipKind
    \/ DeleteRelationshipKind
    \/ CreateRelationshipPropertyKinds

SpecRelationships == Init /\ [][NextRelationships]_vars

\* the calls that register relationship kinds and validate a relationship
\* against them
NextRelationshipValidation ==
    \/ CreateRelationshipKind
    \/ DeleteRelationshipKind
    \/ IsValidRelationshipModel

SpecRelationshipValidation == Init /\ [][NextRelationshipValidation]_vars

\* the calls on the TerminusDB configuration that register relationship
\* kinds along a chain of entity kinds and query them by label
NextTerminusdbRelationships ==
    \/ TdbCreateEntityKinds(ChainKindItems)
    \/ TdbCreateRelationshipKinds(ChainRelationshipItems)
    \/ TdbGetRelationshipKindsByLabelsAndEntityKinds

SpecTerminusdbRelationships == Init /\ [][NextTerminusdbRelationships]_vars

\* the calls on the TerminusDB configuration that write the schema graph
\* and cut statements out of it
NextTerminusdbSchema ==
    \/ TdbCreateEntityKinds(KindItems)
    \/ TdbCreatePropertyKindsOfEntityKinds(PlainPropertyItems)
    \/ TdbCreateRelationshipKinds(RelationshipItems)
    \/ TdbDeleteEntityKind
    \/ TdbDeletePropertyKinds

SpecTerminusdbSchema == Init /\ [][NextTerminusdbSchema]_vars

\* the calls that declare property kinds, with every shape of the lists
NextTerminusdbProperties ==
    \/ TdbCreatePropertyKindsOfEntityKinds(PropertyItems)

SpecTerminusdbProperties == Init /\ [][NextTerminusdbProperties]_vars

\* two processes that create and delete kinds with nothing between them
NextConcurrentWriters ==
    \/ WriterLoads
    \/ WriterSaves

SpecConcurrentWriters == Init /\ [][NextConcurrentWriters]_vars

\* the two stores side by side, small: the kinds 'Kind' and 'A' with the
\* root's property at most, and one relationship kind with one triple at
\* most
SmallStores ==
    /\ DOMAIN ontology_kinds_hierarchy.nodes \subseteq {"Kind", "A"}
    /\ \A k \in DOMAIN ontology_kinds_hierarchy.nodes :
          DOMAIN ontology_kinds_hierarchy.nodes[k].properties \subseteq {"_deleted"}
    /\ call.kind \in {None, "Kind", "A"}
    /\ DOMAIN ontology_data_model.rels \subseteq {"R"}
    /\ \A k \in DOMAIN ontology_data_model.rels : Len(ontology_data_model.rels[k]) <= 1
    /\ rel_call.relationship_kind \in {None, "R"}

\* the calls on the kind tree and the calls on the data model, in any order
NextStores ==
    \/ CreateEntityKind /\ SmallStores'
    \/ DeleteEntityKind /\ SmallStores'
    \/ DeletePropertyKinds /\ SmallStores'
    \/ CreateRelationshipKind /\ SmallStores'
    \/ DeleteRelationshipKind /\ SmallStores'

SpecStores == Init /\ [][NextStores]_vars

TypeOK ==
    /\ ontology_kinds_hierarchy.is_none \in BOOLEAN
    /\ DOMAIN ontology_kinds_hierarchy.nodes \subseteq Kinds

----------------------------------------------------------------------------
(* Vocabulary of the properties                                            *)

Nodes(file) == DOMAIN file.nodes
Keys(file, kind) == DOMAIN file.nodes[kind].properties
ParentOf(file, kind) == file.nodes[kind].parent

RECURSIVE ReachesUp(_, _, _, _)
\* following parent links from kind, at most fuel of them, arrives at top
ReachesUp(file, kind, top, fuel) ==
    IF kind = top THEN TRUE
    ELSE IF fuel = 0 \/ kind \notin Nodes(file) THEN FALSE
    ELSE ReachesUp(file, ParentOf(file, kind), top, fuel - 1)

\* top and the kinds below it, read off the parent links
SubtreeOf(file, top) ==
    {k \in Nodes(file) : ReachesUp(file, k, top, Cardinality(Kinds))}

\* kind has at least the property names of its parent
CoversParent(file, kind) ==
    ParentOf(file, kind) \in Nodes(file) => Keys(file, ParentOf(file, kind)) \subseteq Keys(file, kind)

\* the three lists of a call have one length
WellFormedLists(kind_properties, types_arg, units_arg) ==
    /\ Len(default_types(kind_properties, types_arg)) = Len(kind_properties)
    /\ Len(default_units(kind_properties, units_arg)) = Len(kind_properties)

----------------------------------------------------------------------------
(* C1 .. C10                                                               *)

\* C1: create_entity_kind(K, parent=P, ...) twice with identical arguments
\* leaves the persisted tree as one call left it: the second call, which
\* finds K, changes nothing.
C1_CreateTwiceAsOnce ==
    \A kind \in Kinds, parent \in Kinds, kind_properties \in PropLists,
       types \in TypeArgs, units \in UnitArgs :
        LET once == create_entity_kind(ontology_kinds_hierarchy, kind, parent,
                                       kind_properties, types, units, 1)
            twice == create_entity_kind(once.file, kind, parent,
                                        kind_properties, types, units, 1)
        IN twice.file = once.file

\* C2: when create_entity_kind creates K under P with a property n that P's
\* map already holds, K's map holds for n the descriptor given in the call.
C2_ChildDefinitionWins ==
    \A kind \in Kinds, parent \in Kinds, kind_properties \in PropLists,
       types \in TypeArgs, units \in UnitArgs :
        LET tree == load_or_new_tree(ontology_kinds_hierarchy)
            r == create_entity_kind(ontology_kinds_hierarchy, kind, parent,
                                    kind_properties, types, units, 1)
            own == own_properties_dict(kind_properties,
                                       default_types(kind_properties, types),
                                       default_units(kind_properties, units))
        IN (/\ WellFormedLists(kind_properties, types, units)
            /\ has_node(tree, parent)
            /\ ~has_node(tree, kind)
            /\ r.outcome = "return")
           => \A n \in Range(kind_properties) \cap Keys(tree, parent) :
                 r.file.nodes[kind].properties[n] = own[n]

\* C3: create_entity_kind(K, parent=P) with P absent from the tree returns
\* normally, and afterwards P is a child of the root 'Kind' and K a child
\* of P.
C3_AbsentParentIsCreated ==
    \A kind \in Kinds \ {"Kind"}, parent \in Kinds \ {"Kind"}, kind_properties \in PropLists :
        LET r == create_entity_kind(ontology_kinds_hierarchy, kind, parent,
                                    kind_properties, NoneArg, NoneArg, 1)
        IN (/\ kind # parent
            /\ ~has_node(ontology_kinds_hierarchy, parent)
            /\ ~has_node(ontology_kinds_hierarchy, kind))
           => (/\ r.outcome = "return"
               /\ has_node(r.file, parent)
               /\ ParentOf(r.file, parent) = "Kind"
               /\ has_node(r.file, kind)
               /\ ParentOf(r.file, kind) = parent)

\* C4: a call that ends by raising leaves the persisted kind tree as it
\* found it.
C4_NoPartialCommit ==
    [][call'.outcome # "return" => ontology_kinds_hierarchy' = ontology_kinds_hierarchy]_vars

\* C5 as stated: in every reachable state every kind of the tree has at
\* least the property names of its parent (so along root -> A -> B the key
\* sets grow).
C5_KeysGrowAlongChain ==
    \A kind \in Nodes(ontology_kinds_hierarchy) : CoversParent(ontology_kinds_hierarchy, kind)

\* C5 amended: a kind covers its parent's property names when
\* create_entity_kind creates it, and create_entity_kind and
\* delete_entity_kind calls keep every kind that covers its parent covering
\* it; only a property removal can end it.
C5_KeysGrowAtCreation ==
    [][(call'.changed /\ call'.op \in {"create_entity_kind", "delete_entity_kind"})
       => \A kind \in Nodes(ontology_kinds_hierarchy') :
             (kind \in Nodes(ontology_kinds_hierarchy)
                 => CoversParent(ontology_kinds_hierarchy, kind))
             => CoversParent(ontology_kinds_hierarchy', kind)]_vars

\* the chain Kind -> A -> B just completed by creating B, A holding a
\* property of its own next to the root's
C5_Witness ==
    /\ call.op = "create_entity_kind" /\ call.kind = "B" /\ call.changed
    /\ has_node(ontology_kinds_hierarchy, "B")
    /\ ParentOf(ontology_kinds_hierarchy, "B") = "A"
    /\ ParentOf(ontology_kinds_hierarchy, "A") = "Kind"
    /\ Keys(ontology_kinds_hierarchy, "A") = {"_deleted", "p"}
    /\ Keys(ontology_kinds_hierarchy, "B") = {"_deleted", "p"}

\* C6: whenever a persisted tree exists it is a tree with the single root
\* 'Kind': the root is there and has no parent, every other kind has its
\* one parent in the tree, and the parent links lead to the root (no cycle).
C6_TreeWithRootKind ==
    (~ontology_kinds_hierarchy.is_none) =>
        /\ "Kind" \in Nodes(ontology_kinds_hierarchy)
        /\ ParentOf(ontology_kinds_hierarchy, "Kind") = None
        /\ \A kind \in Nodes(ontology_kinds_hierarchy) \ {"Kind"} :
              /\ ParentOf(ontology_kinds_hierarchy, kind) \in Nodes(ontology_kinds_hierarchy)
              /\ ReachesUp(ontology_kinds_hierarchy, kind, "Kind", Cardinality(Kinds))

\* C7: delete_entity_kind(K) for a K in the tree removes exactly K and the
\* kinds below K; get_entity_kind then gives the empty map for each of
\* them, and every other kind keeps its parent and its property map.
C7_DeleteRemovesSubtree ==
    [][(call'.op = "delete_entity_kind" /\ has_node(ontology_kinds_hierarchy, call'.kind))
       => LET gone == SubtreeOf(ontology_kinds_hierarchy, call'.kind)
          IN /\ call'.kind \in gone
             /\ ~ontology_kinds_hierarchy'.is_none
             /\ Nodes(ontology_kinds_hierarchy') = Nodes(ontology_kinds_hierarchy) \ gone
             /\ \A k \in gone :
                   get_entity_kind(ontology_kinds_hierarchy', k).result = DictResult(EmptyDict)
             /\ \A k \in Nodes(ontology_kinds_hierarchy) \ gone :
                   ontology_kinds_hierarchy'.nodes[k] = ontology_kinds_hierarchy.nodes[k]]_vars

\* a delete_entity_kind that took a kind and a kind below it and left others
C7_Witness ==
    /\ call.op = "delete_entity_kind" /\ call.outcome = "return"
    /\ call.kind \in call.removed
    /\ Cardinality(call.removed) >= 2
    /\ Nodes(ontology_kinds_hierarchy) # {}

\* C8: delete_entity_kind(K) with no persisted tree, or with K not in the
\* tree, returns None without raising and leaves the persisted tree as is.
C8_DeleteAbsentIsNoOp ==
    [][(/\ call'.op = "delete_entity_kind"
        /\ (ontology_kinds_hierarchy.is_none
              \/ call'.kind \notin Nodes(ontology_kinds_hierarchy)))
       => (/\ call'.outcome = "return"
           /\ call'.result = NoneResult
           /\ ontology_kinds_hierarchy' = ontology_kinds_hierarchy)]_vars

\* a delete_entity_kind of a kind that a persisted tree does not hold
C8_Witness ==
    /\ call.op = "delete_entity_kind" /\ call.outcome = "return"
    /\ ~call.changed /\ call.removed = {}
    /\ ~ontology_kinds_hierarchy.is_none
    /\ Nodes(ontology_kinds_hierarchy) # {}
    /\ call.kind \notin Nodes(ontology_kinds_hierarchy)

\* C9: get_entity_kind(K) never raises and never changes the persisted
\* tree; it returns K's stored property map when K is in the tree and the
\* empty map when K is absent or no tree exists.
C9_GetNeverRaises ==
    [][call'.op = "get_entity_kind"
       => (/\ call'.outcome = "return"
           /\ ontology_kinds_hierarchy' = ontology_kinds_hierarchy
           /\ call'.result.type = "dict"
           /\ call'.result.properties =
                 IF (~ontology_kinds_hierarchy.is_none)
                      /\ call'.kind \in Nodes(ontology_kinds_hierarchy)
                 THEN ontology_kinds_hierarchy.nodes[call'.kind].properties
                 ELSE EmptyDict)]_vars

\* a get_entity_kind of a child kind that returned its merged map
C9_Witness ==
    /\ call.op = "get_entity_kind" /\ call.outcome = "return"
    /\ call.kind \in Nodes(ontology_kinds_hierarchy) \ {"Kind"}
    /\ DOMAIN call.result.properties = {"_deleted", "p"}

----------------------------------------------------------------------------
(* C11 .. C14                                                              *)

\* C11: after delete_property_kind(K, p) succeeds, p is absent from
\* get_entity_kind(K), and a second delete_property_kind(K, p) right after
\* it raises ValueError and leaves the persisted tree unchanged.
C11_DeleteTwiceFails ==
    \A kind \in Kinds, p \in PropNames :
        LET first == delete_property_kind(ontology_kinds_hierarchy, kind, p)
            second == delete_property_kind(first.file, kind, p)
        IN first.outcome = "return"
           => /\ p \notin DOMAIN get_entity_kind(first.file, kind).result.properties
              /\ second.outcome = "ValueError"
              /\ second.file = first.file

\* a delete_property_kind that raised ValueError on a kind of the tree from
\* which an earlier call had removed a property its parent still holds
C11_Witness ==
    /\ call.op = "delete_property_kind" /\ call.outcome = "ValueError"
    /\ ~call.changed
    /\ call.kind \in Nodes(ontology_kinds_hierarchy) \ {"Kind"}
    /\ ParentOf(ontology_kinds_hierarchy, call.kind) \in Nodes(ontology_kinds_hierarchy)
    /\ \E p \in Keys(ontology_kinds_hierarchy, ParentOf(ontology_kinds_hierarchy, call.kind)) :
          p \notin Keys(ontology_kinds_hierarchy, call.kind)

\* C12: create_property_kinds_of_entity_kind(K, props, types) on a K of the
\* tree returns normally; afterwards K's map holds every named property
\* with the given type, and the maps of all other kinds are as before.
C12_AddPropertiesSucceeds ==
    \A kind \in Nodes(ontology_kinds_hierarchy), property_kinds \in PropLists,
       property_types \in SeqsUpTo(PyTypes, MaxProps) :
        LET r == create_property_kinds_of_entity_kind(
                     ontology_kinds_hierarchy, kind, property_kinds, property_types)
        IN Len(property_kinds) = Len(property_types)
           => /\ r.outcome = "return"
              /\ \A i \in DOMAIN property_kinds :
                    /\ property_kinds[i] \in Keys(r.file, kind)
                    /\ r.file.nodes[kind].properties[property_kinds[i]].type
                          = type2str(property_types[i])
              /\ \A other \in Nodes(ontology_kinds_hierarchy) \ {kind} :
                    r.file.nodes[other] = ontology_kinds_hierarchy.nodes[other]

\* C13: with the root 'Kind' carrying its system property, creating A under
\* 'Kind' and then B under A with own properties P gives a get_entity_kind(B)
\* whose keys are exactly P together with the keys of A's map, among them
\* '_deleted' typed bool.
C13_ChainInheritsSystemProperty ==
    \A a \in Kinds \ {"Kind"}, b \in Kinds \ {"Kind"},
       a_properties \in PropLists, b_properties \in PropLists, b_types \in TypeArgs :
        LET first == create_entity_kind(ontology_kinds_hierarchy, a, "Kind",
                                        a_properties, NoneArg, NoneArg, 1)
            second == create_entity_kind(first.file, b, a, b_properties, b_types, NoneArg, 1)
            got == get_entity_kind(second.file, b).result.properties
        IN (/\ a # b
            /\ WellFormedLists(b_properties, b_types, NoneArg)
            /\ \/ ontology_kinds_hierarchy.is_none
               \/ /\ has_node(ontology_kinds_hierarchy, "Kind")
                  /\ "_deleted" \in Keys(ontology_kinds_hierarchy, "Kind")
                  /\ ~has_node(ontology_kinds_hierarchy, a)
                  /\ ~has_node(ontology_kinds_hierarchy, b))
           => /\ first.outcome = "return"
              /\ second.outcome = "return"
              /\ DOMAIN got = Range(b_properties) \cup Keys(first.file, a)
              /\ "_deleted" \in DOMAIN got
              /\ got["_deleted"].type = "<class 'bool'>"

\* the chain Kind -> A -> B just completed by creating B with the own
\* property p under an A that holds the system property alone
C13_Witness ==
    /\ call.op = "create_entity_kind" /\ call.kind = "B" /\ call.changed
    /\ has_node(ontology_kinds_hierarchy, "B")
    /\ has_node(ontology_kinds_hierarchy, "A")
    /\ ParentOf(ontology_kinds_hierarchy, "B") = "A"
    /\ ParentOf(ontology_kinds_hierarchy, "A") = "Kind"
    /\ Keys(ontology_kinds_hierarchy, "A") = {"_deleted"}
    /\ Keys(ontology_kinds_hierarchy, "B") = {"_deleted", "p"}
    /\ ontology_kinds_hierarchy.nodes["B"].properties["_deleted"].type = "<class 'bool'>"

\* C14: create_entity_kind called with property, type and unit lists that
\* are not all of one length ends with an error and leaves the persisted
\* tree unchanged.
C14_UnequalListsRejected ==
    \A kind \in Kinds, parent \in Kinds, kind_properties \in PropLists,
       types \in TypeArgs, units \in UnitArgs :
        LET r == create_entity_kind(ontology_kinds_hierarchy, kind, parent,
                                    kind_properties, types, units, 1)
        IN ~WellFormedLists(kind_properties, types, units)
           => /\ r.outcome # "return"
              /\ r.file = ontology_kinds_hierarchy

----------------------------------------------------------------------------
(* C15 .. C20                                                              *)

\* the triples registered under relationship_kind, none when there is no
\* data model or no such key
TriplesOf(model, relationship_kind) ==
    IF (~model.is_none) /\ relationship_kind \in DOMAIN model.rels
    THEN model.rels[relationship_kind] ELSE <<>>

\* relationship_kind is a key of an existing data model
Known(model, relationship_kind) ==
    (~model.is_none) /\ relationship_kind \in DOMAIN model.rels

\* some triple of the list is between kind_a and kind_b
HasPair(triples, kind_a, kind_b) ==
    \E i \in 1..Len(triples) : triples[i].kind_a = kind_a /\ triples[i].kind_b = kind_b

\* every relationship kind but relationship_kind is in after as in before
OthersAsBefore(before, after, relationship_kind) ==
    \A other \in RelationshipKinds \ {relationship_kind} :
        /\ Known(after, other) = Known(before, other)
        /\ TriplesOf(after, other) = TriplesOf(before, other)

\* C15: every relationship kind's list holds at most one triple per
\* (kind_a, kind_b); create_relationship_kind(a, r, b) appends [a, b, {}]
\* at the end of r's list when the pair is not registered, and changes
\* nothing in the data model when it is.
C15_PairsUniqueCreateAppends ==
    /\ \A r \in RelationshipKinds :
          LET triples == TriplesOf(ontology_data_model, r)
          IN \A i, j \in 1..Len(triples) :
                (triples[i].kind_a = triples[j].kind_a /\ triples[i].kind_b = triples[j].kind_b)
                   => i = j
    /\ \A a \in PairKinds, r \in RelationshipKinds, b \in PairKinds :
          LET res == create_relationship_kind(ontology_data_model, a, r, b)
              old == TriplesOf(ontology_data_model, r)
          IN /\ res.outcome = "return"
             /\ IF HasPair(old, a, b)
                THEN res.model = ontology_data_model
                ELSE /\ Known(res.model, r)
                     /\ res.model.rels[r] = Append(old, Triple(a, b, EmptyDict))
                     /\ OthersAsBefore(ontology_data_model, res.model, r)

\* a create_relationship_kind of a pair already registered, in a list of
\* several pairs
C15_Witness ==
    /\ rel_call.op = "create_relationship_kind" /\ rel_call.outcome = "return"
    /\ ~rel_call.changed
    /\ Len(TriplesOf(ontology_data_model, rel_call.relationship_kind)) >= 2

\* C16: delete_relationship_kind(a, r, b) with r known and (a, b) registered
\* removes exactly that triple: (a, b) is no longer in r's list, the other
\* triples of r keep their property maps and their order, and the lists of
\* the other relationship kinds are unchanged.
C16_DeleteRemovesExactlyTheTriple ==
    \A a \in PairKinds, r \in RelationshipKinds, b \in PairKinds :
        LET res == delete_relationship_kind(ontology_data_model, a, r, b)
            old == TriplesOf(ontology_data_model, r)
            NotThePair(t) == ~(t.kind_a = a /\ t.kind_b = b)
        IN (Known(ontology_data_model, r) /\ HasPair(old, a, b))
           => /\ res.outcome = "return"
              /\ ~HasPair(TriplesOf(res.model, r), a, b)
              /\ get_relationship_kind(res.model, r).result = ListValue(SelectSeq(old, NotThePair))
              /\ Len(TriplesOf(res.model, r)) = Len(old) - 1
              /\ OthersAsBefore(ontology_data_model, res.model, r)

\* a delete_relationship_kind that took a triple out of a list and left
\* two or more others
C16_Witness ==
    /\ rel_call.op = "delete_relationship_kind" /\ rel_call.outcome = "return"
    /\ rel_call.changed
    /\ Len(TriplesOf(ontology_data_model, rel_call.relationship_kind)) >= 2

\* C17: delete_relationship_kind(a, r, b) raises ValueError, leaving the
\* data model unchanged, exactly when there is no data model or r is not a
\* key of it; with r known it never raises, whether (a, b) is registered
\* or not.
C17_DeleteRaisesOnlyWhenUnknown ==
    \A a \in PairKinds, r \in RelationshipKinds, b \in PairKinds :
        LET res == delete_relationship_kind(ontology_data_model, a, r, b)
        IN IF Known(ontology_data_model, r)
           THEN res.outcome = "return"
           ELSE res.outcome = "ValueError" /\ res.model = ontology_data_model

\* a delete_relationship_kind that raised ValueError for a relationship
\* kind that an existing data model does not hold
C17_Witness ==
    /\ rel_call.op = "delete_relationship_kind" /\ rel_call.outcome = "ValueError"
    /\ ~rel_call.changed
    /\ ~ontology_data_model.is_none
    /\ DOMAIN ontology_data_model.rels # {}
    /\ rel_call.relationship_kind \notin DOMAIN ontology_data_model.rels

\* C18 as stated: get_relationship_kind(name) returns the list of triples
\* registered under name, and None when no data model exists or no pair is
\* registered under name.
C18_GetNoneWhenNoPair ==
    \A name \in RelationshipKinds :
        LET res == get_relationship_kind(ontology_data_model, name)
        IN /\ res.outcome = "return"
           /\ res.model = ontology_data_model
           /\ res.result =
                 IF Len(TriplesOf(ontology_data_model, name)) = 0
                 THEN NoneValue
                 ELSE ListValue(TriplesOf(ontology_data_model, name))

\* C18 amended: get_relationship_kind(name) returns the list stored under
\* name, which is empty once every pair of name has been deleted, and None
\* when no data model exists or name is not a key of it.
C18_GetNoneWhenNotKey ==
    \A name \in RelationshipKinds :
        LET res == get_relationship_kind(ontology_data_model, name)
        IN /\ res.outcome = "return"
           /\ res.model = ontology_data_model
           /\ res.result =
                 IF Known(ontology_data_model, name)
                 THEN ListValue(ontology_data_model.rels[name])
                 ELSE NoneValue

\* a get_relationship_kind that returned the empty list of a relationship
\* kind whose pairs were all deleted
C18_Witness ==
    /\ rel_call.op = "get_relationship_kind" /\ rel_call.outcome = "return"
    /\ rel_call.result = ListValue(<<>>)
    /\ Known(ontology_data_model, rel_call.relationship_kind)

\* C19: create_relationship_property_kinds(r, props, types) with r known
\* returns normally, keeps r's triples and their pairs, and gives each
\* triple either its property map as before or that map with every named
\* property set to its type; with r unknown, or with no data model, it
\* fails with an error; the other relationship kinds are never touched.
C19_AddsPropertiesToMatchingTriples ==
    \A r \in RelationshipKinds, new_property_kinds \in PropLists,
       new_property_types \in SeqsUpTo(PyTypes, MaxProps) :
        LET res == create_relationship_property_kinds(
                       ontology_data_model, r, new_property_kinds, new_property_types)
            old == TriplesOf(ontology_data_model, r)
            new == TriplesOf(res.model, r)
            added == [n \in Range(new_property_kinds) |->
                        [type |-> type2str(new_property_types[
                                     CHOOSE i \in DOMAIN new_property_kinds :
                                        /\ new_property_kinds[i] = n
                                        /\ \A j \in DOMAIN new_property_kinds :
                                              new_property_kinds[j] = n => j <= i])]]
        IN Len(new_property_kinds) = Len(new_property_types)
           => IF Known(ontology_data_model, r)
              THEN /\ res.outcome = "return"
                   /\ Len(new) = Len(old)
                   /\ \A i \in 1..Len(old) :
                         /\ new[i].kind_a = old[i].kind_a
                         /\ new[i].kind_b = old[i].kind_b
                         /\ new[i].properties \in
                               {old[i].properties, DictUpdate(old[i].properties, added)}
                   /\ OthersAsBefore(ontology_data_model, res.model, r)
              ELSE /\ res.outcome # "return"
                   /\ res.model = ontology_data_model

\* C20: _check_entity_kind_properties_validity(names, values, K), given a
\* value for every name, returns True exactly when every name is a key of
\* get_entity_kind(K) and the type of its value is the declared type;
\* otherwise it raises ValueError, for an undeclared name as for a type
\* that differs.  It never changes the tree.
C20_ValidIffDeclaredAndTyped ==
    \A kind \in Kinds, names \in NameLists, values \in ValueLists :
        LET res == _check_entity_kind_properties_validity(
                       ontology_kinds_hierarchy, names, values, kind)
            declared == get_entity_kind(ontology_kinds_hierarchy, kind).result.properties
            passes == \A i \in 1..Len(names) :
                         /\ names[i] \in DOMAIN declared
                         /\ declared[names[i]].type = str_type(values[i])
        IN Len(names) <= Len(values)
           => /\ res.file = ontology_kinds_hierarchy
              /\ IF passes
                 THEN res.outcome = "return" /\ res.result = TrueResult
                 ELSE res.outcome = "ValueError"

\* a validity check that raised ValueError on a kind of the tree that holds
\* every property name: a value of another type than the declared one
C20_Witness ==
    /\ call.op = "_check_entity_kind_properties_validity" /\ call.outcome = "ValueError"
    /\ call.kind \in Nodes(ontology_kinds_hierarchy)
    /\ Keys(ontology_kinds_hierarchy, call.kind) = PropNames

----------------------------------------------------------------------------
(* C21 .. C22: validation of a relationship against the data model         *)

\* the properties declared on the triple of (kind_a, kind_b), none when the
\* pair is not registered
DeclaredOn(triples, kind_a, kind_b) ==
    IF HasPair(triples, kind_a, kind_b)
    THEN (CHOOSE t \in Range(triples) : t.kind_a = kind_a /\ t.kind_b = kind_b).properties
    ELSE EmptyDict

\* the relationship (kind_a, relationship_kind, kind_b) with the given
\* property names and values breaks the data model: the relationship kind
\* is unknown, the pair is not permitted, a name is not declared on the
\* pair, or a value has another type than the declared one
RelationshipViolation(model, kind_a, relationship_kind, kind_b, names, values) ==
    \/ ~Known(model, relationship_kind)
    \/ ~HasPair(TriplesOf(model, relationship_kind), kind_a, kind_b)
    \/ \E i \in 1..Len(names) :
          LET declared == DeclaredOn(TriplesOf(model, relationship_kind), kind_a, kind_b)
          IN \/ names[i] \notin DOMAIN declared
             \/ declared[names[i]].type # str_type(values[i])

\* C21: every schema violation that _is_valid_relationship_model finds ends
\* the call with a raised error and is never handed back as an ordinary
\* value: an unknown relationship kind, a pair that is not permitted, a
\* property that is not declared on the pair, a value of the wrong type.
C21_ViolationsAreRaised ==
    \A kind_a \in PairKinds, relationship_kind \in RelationshipKinds, kind_b \in PairKinds,
       names \in PropLists, values \in SeqsUpTo(ValueTypes, MaxProps) :
        LET res == _is_valid_relationship_model(ontology_data_model, kind_a, relationship_kind,
                                                kind_b, names, values)
        IN (/\ ~ontology_data_model.is_none
            /\ Len(names) = Len(values)
            /\ RelationshipViolation(ontology_data_model, kind_a, relationship_kind,
                                     kind_b, names, values))
           => res.outcome # "return"

\* C22: validation falls back to ancestors.  With kind_a created in the
\* tree as a child of parent_a, kind_b an entity kind, and the pair
\* (parent_a, kind_b) registered for relationship_kind while
\* (kind_a, kind_b) is not, _is_valid_relationship_model(kind_a,
\* relationship_kind, kind_b, [], []) succeeds.
C22_ValidationFallsBackToAncestors ==
    \A kind_a \in PairKinds, parent_a \in PairKinds, kind_b \in PairKinds,
       relationship_kind \in RelationshipKinds :
        LET first == create_entity_kind(ontology_kinds_hierarchy, parent_a, "Kind",
                                        <<>>, NoneArg, NoneArg, 1)
            second == create_entity_kind(first.file, kind_a, parent_a,
                                         <<>>, NoneArg, NoneArg, 1)
            triples == TriplesOf(ontology_data_model, relationship_kind)
            res == _is_valid_relationship_model(ontology_data_model, kind_a, relationship_kind,
                                                kind_b, <<>>, <<>>)
        IN (/\ kind_a # parent_a
            /\ ontology_kinds_hierarchy.is_none
            /\ second.outcome = "return"
            /\ ReachesUp(second.file, kind_a, parent_a, Cardinality(Kinds))
            /\ HasPair(triples, parent_a, kind_b)
            /\ ~HasPair(triples, kind_a, kind_b))
           => res.outcome = "return" /\ res.result = BoolValue(TRUE)

----------------------------------------------------------------------------
(* C23 .. C25: relationship kinds by label along the ancestors             *)

\* the classes n sys:inherits steps above kind in the schema graph
RECURSIVE StepsAbove(_, _, _)
StepsAbove(schema, kind, n) ==
    IF n = 0 THEN {kind}
    ELSE UNION {schema.classes[k].inherits :
                   k \in StepsAbove(schema, kind, n - 1) \cap DOMAIN schema.classes}

\* top is kind or an ancestor of kind
AncestorOrSelf(schema, kind, top) ==
    \E n \in 0..Cardinality(TdbKinds) : top \in StepsAbove(schema, kind, n)

\* the least number of steps from kind up to its ancestor-or-self top
Distance(schema, kind, top) ==
    CHOOSE n \in 0..Cardinality(TdbKinds) :
        /\ top \in StepsAbove(schema, kind, n)
        /\ \A m \in 0..(n - 1) : top \notin StepsAbove(schema, kind, m)

\* the pairs registered for the label: a class statement mentions the
\* relationship kind label/kind_b and a documentation statement labels it
RegisteredPairs(schema, label) ==
    {<<dic.kind_a, dic.kind_b>> : dic \in relationship_kinds_by_labels(schema, {label})}

\* what the query by labels and entity kinds answers for one entry, under
\* one order of the list of line 891
ResolveOne(schema, kind_a, label, kind_b, allowed_rels) ==
    _get_relationship_kinds_by_labels_and_entity_kinds(
        schema, <<RelationshipItem(kind_a, label, kind_b)>>, allowed_rels)

\* C23: with the chain UserGroupAdmin -> UserGroup -> User in the schema
\* graph and (User, OWNED, Person) the only registered pair, the walk for
\* (UserGroupAdmin, OWNED, Person) never fails and resolves to
\* (User, Person): it covers the whole chain of ancestors.
C23_WalkCoversWholeChain ==
    \A allowed_rels \in Orderings(relationship_kinds_by_labels(client_schema, {Owned})) :
        LET res == ResolveOne(client_schema, UserGroupAdmin, Owned, Person, allowed_rels)
        IN (/\ {UserGroup, UserGroupAdmin} \subseteq DOMAIN client_schema.classes
            /\ client_schema.classes[UserGroupAdmin].inherits = {UserGroup}
            /\ client_schema.classes[UserGroup].inherits = {User}
            /\ RegisteredPairs(client_schema, Owned) = {<<User, Person>>}
            /\ RegisteredPairs(client_schema, OwnedBy) = {})
           => /\ res.outcome = "return"
              /\ res.resolved = <<(<<User, Person>>)>>
              /\ res.result = <<(<<Owned, Person>>)>>

\* C24: the walk tries the nearest candidates first.  When the query for
\* (kind_a, label, kind_b) resolves to a pair, no other pair registered
\* for the label is at least as near to kind_a and at least as near to
\* kind_b: a candidate that keeps kind_a (or kind_b) itself is preferred
\* over one that replaces it by its parent.
C24_NearestAncestorFirst ==
    \A kind_a \in TdbKinds, kind_b \in TdbKinds, label \in Labels :
        \A allowed_rels \in Orderings(relationship_kinds_by_labels(client_schema, {label})) :
            LET res == ResolveOne(client_schema, kind_a, label, kind_b, allowed_rels)
                near(kind, top) == Distance(client_schema, kind, top)
            IN res.outcome = "return"
               => LET x == res.resolved[1][1]
                      y == res.resolved[1][2]
                  IN \A pair \in RegisteredPairs(client_schema, label) :
                        (/\ AncestorOrSelf(client_schema, kind_a, pair[1])
                         /\ AncestorOrSelf(client_schema, kind_b, pair[2])
                         /\ near(kind_a, pair[1]) <= near(kind_a, x)
                         /\ near(kind_b, pair[2]) <= near(kind_b, y))
                        => pair = <<x, y>>

\* C25: for a fixed schema graph and fixed arguments the query answers
\* the same under every order in which the store binds the results and
\* the de-duplicating set of line 1184 hands out its elements.
C25_ResolutionIsDeterministic ==
    \A items \in SeqsUpTo(QueryItems, MaxBatch) :
        LET allowed == relationship_kinds_by_labels(
                           client_schema, {items[i].label : i \in 1..Len(items)})
        IN \A one \in Orderings(allowed), other \in Orderings(allowed) :
              LET first == _get_relationship_kinds_by_labels_and_entity_kinds(
                               client_schema, items, one)
                  second == _get_relationship_kinds_by_labels_and_entity_kinds(
                                client_schema, items, other)
              IN first.outcome = second.outcome /\ first.result = second.result

----------------------------------------------------------------------------
(* C26 .. C30: writes to the schema graph and cuts out of it               *)

\* the slot the URI names points at entity_kind: a relationship slot whose
\* class is entity_kind
PointsAt(uri, entity_kind) == is_relationship_uri(uri) /\ uri.target = entity_kind

\* C26: when the store rejects the reduced schema that delete_entity_kind
\* or _delete_from_schema hands it, the call fails with a store error that
\* reaches the caller, and the stored schema is unchanged.
C26_StoreRejectionReachesCaller ==
    \A entity_kind \in TdbKinds, property_kinds \in SeqsUpTo(DeletedNames, 1),
       answer \in StoreAnswers \ {"api:success"} :
        LET kind_cut == tdb_delete_entity_kind(client_schema, kg_documents, entity_kind, answer)
            names_cut == _delete_from_schema(client_schema, kg_documents, entity_kind,
                                             property_kinds, answer)
        IN /\ without_entity_kind(client_schema, entity_kind) # client_schema
              => kind_cut.outcome = "DatabaseError" /\ kind_cut.schema = client_schema
           /\ without_property_kinds(client_schema, entity_kind, property_kinds) # client_schema
              => names_cut.outcome = "DatabaseError" /\ names_cut.schema = client_schema

\* C27: delete_entity_kind(K), accepted by the store, drops the class
\* statement of K, the slot definitions of K and the relationship slots of
\* other kinds that point at K, and loses nothing unrelated: every
\* statement of a kind other than K that neither inherits K nor points at
\* K is retained, also when the name of that kind begins with the name of
\* K.
C27_DeleteEntityKindLosesNothingUnrelated ==
    \A entity_kind \in TdbKinds :
        LET before == client_schema
            after == tdb_delete_entity_kind(client_schema, kg_documents, entity_kind,
                                            "api:success").schema
            unrelated == {k \in (DOMAIN before.classes) \ {entity_kind} :
                             entity_kind \notin before.classes[k].inherits}
        IN /\ entity_kind \notin DOMAIN after.classes
           /\ \A uri \in after.definitions : uri.kind # entity_kind
           /\ unrelated \subseteq DOMAIN after.classes
           /\ \A k \in unrelated :
                 /\ after.classes[k].inherits = before.classes[k].inherits
                 /\ {m \in before.classes[k].mentions : ~PointsAt(m.uri, entity_kind)}
                       \subseteq after.classes[k].mentions
           /\ \A uri \in before.definitions :
                 (uri.kind # entity_kind /\ ~PointsAt(uri, entity_kind))
                 => uri \in after.definitions

\* C28: _delete_from_schema(K, names), accepted by the store, removes for
\* each name the slot definition of K and the mention in the class
\* statement of K; the class statement of K, the slots of K under other
\* names and every statement of the other kinds are retained.
C28_DeleteFromSchemaCutsOnlyTheNamed ==
    \A entity_kind \in TdbKinds, property_kinds \in SeqsUpTo(DeletedNames, 1) :
        LET before == client_schema
            after == _delete_from_schema(client_schema, kg_documents, entity_kind,
                                         property_kinds, "api:success").schema
            named(uri) == uri.kind = entity_kind /\ uri.predicate \in Range(property_kinds)
        IN /\ DOMAIN after.classes = DOMAIN before.classes
           /\ \A k \in DOMAIN before.classes :
                 /\ after.classes[k].inherits = before.classes[k].inherits
                 /\ after.classes[k].mentions =
                       IF k = entity_kind
                       THEN {m \in before.classes[k].mentions :
                                m.predicate \notin Range(property_kinds)}
                       ELSE before.classes[k].mentions
           /\ after.definitions = {uri \in before.definitions : ~named(uri)}
           /\ after.documentation = before.documentation

\* C29: the schema commit is all-or-nothing.  When the store reports
\* non-success for the batch of create_entity_kinds, the call fails with a
\* store error and nothing the call wrote remains: no schema statement, no
\* 'Abstract' instance and no Has_parent relationship.
C29_CreateEntityKindsAllOrNothing ==
    \A items \in SeqsUpTo(KindItems, MaxBatch) :
        LET res == create_entity_kinds(client_schema, kg_documents, items, "api:failure")
        IN Len(items) > 0
           => /\ res.outcome = "DatabaseError"
              /\ res.schema = client_schema
              /\ res.documents = kg_documents

\* the lists of the entry break the rules of the call: a type list or a
\* type-family list whose length is not that of the property list, or a
\* type family other than list, set, Optional and 'Mandatory'
Offending(item) ==
    \/ /\ ~item.property_types.is_none
       /\ Len(item.property_types.list) # Len(item.property_kinds.list)
    \/ /\ ~item.properties_type_families.is_none
       /\ \/ Len(item.properties_type_families.list) # Len(item.property_kinds.list)
          \/ \E i \in 1..Len(item.properties_type_families.list) :
                item.properties_type_families.list[i]
                    \notin {"list", "set", "Optional", "Mandatory"}

----------------------------------------------------------------------------
(* C31 .. C39                                                              *)

\* the tree the call of writer w leaves in its own copy
WrittenBy(w) == writer_call(writers[w].op, writers[w].kind, writers[w].tree).file

\* no writer is inside a call
AllFinished == \A w \in Writers : writers[w].pc # "loaded"

\* C31: two processes that run mutating calls without serialisation race
\* with last-writer-wins: once both have finished, the persisted tree is
\* exactly the tree the last saver computed from the tree it had loaded,
\* whatever the other process saved in between.
C31_LastWriterWins ==
    (AllFinished /\ last_saver # None /\ writers[last_saver].pc = "done")
        => ontology_kinds_hierarchy = WrittenBy(last_saver)

\* both writers loaded the same tree and created different kinds; w2 saved
\* last and the kind w1 created is not in the persisted tree
C31_Witness ==
    /\ AllFinished
    /\ last_saver = "w2"
    /\ writers["w1"].pc = "done" /\ writers["w2"].pc = "done"
    /\ writers["w1"].op = "create_entity_kind" /\ writers["w1"].kind = "A"
    /\ writers["w2"].op = "create_entity_kind" /\ writers["w2"].kind = "B"
    /\ writers["w1"].tree = writers["w2"].tree
    /\ ~has_node(writers["w1"].tree, "A")
    /\ has_node(ontology_kinds_hierarchy, "B")
    /\ ~has_node(ontology_kinds_hierarchy, "A")

\* C32: delete_property_kinds(K, props) removes properties from K's map
\* only: the tree holds the same kinds under the same parents afterwards,
\* and the property map of every kind other than K, the kinds below K
\* included, is the one the call found.
C32_DeletePropertyKindsTouchesOnlyK ==
    \A kind \in Kinds, property_kinds \in DelLists :
        \A r \in {delete_property_kinds(ontology_kinds_hierarchy, kind, property_kinds)} :
           /\ Nodes(r.file) = Nodes(ontology_kinds_hierarchy)
           /\ \A other \in Nodes(ontology_kinds_hierarchy) :
                 /\ ParentOf(r.file, other) = ParentOf(ontology_kinds_hierarchy, other)
                 /\ other # kind
                       => r.file.nodes[other].properties
                            = ontology_kinds_hierarchy.nodes[other].properties

\* delete_property_kinds has just removed the root's '_deleted' from a kind
\* that has a child, and the child still holds it
C32_Witness ==
    /\ call.op = "delete_property_kinds" /\ call.changed
    /\ call.kind \in Nodes(ontology_kinds_hierarchy) \ {"Kind"}
    /\ "_deleted" \notin Keys(ontology_kinds_hierarchy, call.kind)
    /\ \E child \in Nodes(ontology_kinds_hierarchy) :
          /\ ParentOf(ontology_kinds_hierarchy, child) = call.kind
          /\ "_deleted" \in Keys(ontology_kinds_hierarchy, child)

\* C33: delete_property_kinds(K, [p1, ..., pn]) is all-or-nothing: when K is
\* in the tree and some pi is missing from K's map at the moment the loop
\* reaches it (a name repeated in the list is missing the second time), the
\* call raises ValueError and the persisted tree is the one the call found.
C33_DeletePropertyKindsAllOrNothing ==
    \A kind \in Nodes(ontology_kinds_hierarchy), property_kinds \in DelLists :
        LET missing == \/ \E i \in DOMAIN property_kinds :
                             property_kinds[i] \notin Keys(ontology_kinds_hierarchy, kind)
                       \/ \E i, j \in DOMAIN property_kinds :
                             i # j /\ property_kinds[i] = property_kinds[j]
        IN missing
           => \A r \in {delete_property_kinds(ontology_kinds_hierarchy, kind, property_kinds)} :
                 r.outcome = "ValueError" /\ r.file = ontology_kinds_hierarchy

\* delete_property_kinds has just raised ValueError on a kind that holds
\* every property name a call can list: the name that was missing had been
\* listed, and popped from the copy in memory, earlier in the same call
C33_Witness ==
    /\ call.op = "delete_property_kinds" /\ call.outcome = "ValueError"
    /\ ~call.changed
    /\ call.kind \in Nodes(ontology_kinds_hierarchy)
    /\ Keys(ontology_kinds_hierarchy, call.kind) = PropNames

\* C34: in every state reachable by create_entity_kind, delete_entity_kind
\* and delete_property_kinds calls, get_entity_kind(K) returns the empty map
\* only when K is absent from the tree.
C34_EmptyMapOnlyWhenAbsent ==
    \A kind \in Kinds :
        get_entity_kind(ontology_kinds_hierarchy, kind).result.properties = EmptyDict
            => ~has_node(ontology_kinds_hierarchy, kind)

\* C35: in every reachable state, the state after delete_entity_kind('Kind')
\* included, a call of create_entity_kind ends by itself: the recursion that
\* creates a missing parent stops before the interpreter has to cut it off.
C35_CreateEntityKindRecursionIsBounded ==
    \A kind \in Kinds, parent \in Kinds :
        create_entity_kind(ontology_kinds_hierarchy, kind, parent,
                           NoneArg, NoneArg, NoneArg, 1).outcome # "RecursionError"

\* create_relationship_kind(a, r, b) and then delete_relationship_kind(a, r, b)
\* on the data model
CreatedThenDeleted(model, kind_a, relationship_kind, kind_b) ==
    delete_relationship_kind(
        create_relationship_kind(model, kind_a, relationship_kind, kind_b).model,
        kind_a, relationship_kind, kind_b)

\* C36 as stated: create_relationship_kind(a, r, b) on a data model in which
\* r is unknown, followed at once by delete_relationship_kind(a, r, b),
\* gives the data model its previous content back: r is unknown again and
\* get_relationship_kind(r) returns None.
C36_CreateDeleteRestores ==
    \A kind_a \in PairKinds, relationship_kind \in RelationshipKinds, kind_b \in PairKinds :
        ~Known(ontology_data_model, relationship_kind)
            => LET d == CreatedThenDeleted(ontology_data_model, kind_a, relationship_kind, kind_b)
               IN /\ d.model = ontology_data_model
                  /\ get_relationship_kind(d.model, relationship_kind).result = NoneValue

\* C36 amended: create_relationship_kind(a, r, b) on a data model in which
\* r is unknown, followed at once by delete_relationship_kind(a, r, b),
\* succeeds twice and leaves a data model in which r is a key with the
\* empty list, so that get_relationship_kind(r) returns [], while the lists
\* of the other relationship kinds are the ones found.
C36_CreateDeleteLeavesEmptyKey ==
    \A kind_a \in PairKinds, relationship_kind \in RelationshipKinds, kind_b \in PairKinds :
        ~Known(ontology_data_model, relationship_kind)
            => LET c == create_relationship_kind(ontology_data_model, kind_a,
                                                 relationship_kind, kind_b)
                   d == CreatedThenDeleted(ontology_data_model, kind_a, relationship_kind, kind_b)
               IN /\ c.outcome = "return" /\ d.outcome = "return"
                  /\ ~d.model.is_none
                  /\ DOMAIN d.model.rels = (DOMAIN ontology_data_model.rels) \cup {relationship_kind}
                  /\ d.model.rels[relationship_kind] = <<>>
                  /\ OthersAsBefore(ontology_data_model, d.model, relationship_kind)
                  /\ get_relationship_kind(d.model, relationship_kind).result = ListValue(<<>>)

\* delete_relationship_kind has just removed the only triple of the only
\* relationship kind of the data model, and the kind is a key still
C36_Witness ==
    /\ rel_call.op = "delete_relationship_kind" /\ rel_call.changed
    /\ ~ontology_data_model.is_none
    /\ DOMAIN ontology_data_model.rels = {rel_call.relationship_kind}
    /\ ontology_data_model.rels[rel_call.relationship_kind] = <<>>

\* C37: the kind tree and the data model are independent stores: a call
\* on the kind tree (create_entity_kind, delete_entity_kind,
\* delete_property_kinds) leaves the data model as it is; a call on the
\* data model leaves the kind tree as it is; and create_relationship_kind
\* registers a pair of kinds that are not in the tree like any other, so
\* that a triple naming a deleted or never-created kind is and stays
\* registered.
C37_StoresAreIndependent ==
    [][/\ (call' # call \/ ontology_kinds_hierarchy' # ontology_kinds_hierarchy)
             => ontology_data_model' = ontology_data_model
       /\ (rel_call' # rel_call \/ ontology_data_model' # ontology_data_model)
             => ontology_kinds_hierarchy' = ontology_kinds_hierarchy
       /\ \A kind_a \in PairKinds, kind_b \in PairKinds, relationship_kind \in RelationshipKinds :
             (~has_node(ontology_kinds_hierarchy, kind_a)
                 \/ ~has_node(ontology_kinds_hierarchy, kind_b))
             => LET c == create_relationship_kind(ontology_data_model, kind_a,
                                                  relationship_kind, kind_b)
                IN /\ c.outcome = "return"
                   /\ HasPair(TriplesOf(c.model, relationship_kind), kind_a, kind_b)]_vars

\* delete_entity_kind has removed 'A' from the tree, and the data model
\* holds a triple that names 'A'
C37_Witness ==
    /\ call.op = "delete_entity_kind" /\ "A" \in call.removed
    /\ ~has_node(ontology_kinds_hierarchy, "A")
    /\ \E kind_b \in PairKinds :
          \/ HasPair(TriplesOf(ontology_data_model, "R"), "A", kind_b)
          \/ HasPair(TriplesOf(ontology_data_model, "R"), kind_b, "A")

\* C38: _check_entity_kind_properties_validity fails for every kind that
\* is absent from the tree, whatever the property list is, the empty list
\* included: an instance of an unregistered kind is never reported valid.
C38_AbsentKindNeverValid ==
    \A kind \in Kinds, names \in NameLists, values \in ValueLists :
        ~has_node(ontology_kinds_hierarchy, kind)
            => _check_entity_kind_properties_validity(
                   ontology_kinds_hierarchy, names, values, kind).outcome # "return"

\* C39: in the query by labels and entity kinds the answer for one entry
\* (kind_a, label, kind_b) of a batch depends on that entry and the schema
\* graph only: an entry that resolves when it is asked for alone resolves
\* to the same relationship kind when the call carries other entries too,
\* and the relationship kind answered for a label L is one whose label is
\* exactly L.
C39_BatchEntriesAreIndependent ==
    \A items \in SeqsUpTo(QueryItems, MaxBatch) :
        LET allowed == relationship_kinds_by_labels(
                           client_schema, {items[i].label : i \in 1..Len(items)})
        IN \A allowed_rels \in Orderings(allowed) :
              LET batch == _get_relationship_kinds_by_labels_and_entity_kinds(
                               client_schema, items, allowed_rels)
              IN batch.outcome = "return"
                 => \A i \in 1..Len(items) :
                       /\ batch.result[i][1] = items[i].label
                       /\ \A alone_rels \in Orderings(relationship_kinds_by_labels(
                                                         client_schema, {items[i].label})) :
                             LET alone == ResolveOne(client_schema, items[i].kind_a,
                                                     items[i].label, items[i].kind_b,
                                                     alone_rels)
                             IN alone.outcome = "return" => alone.result[1] = batch.result[i]

====
